---- MODULE Spec2Model ----
(***************************************************************************)
(* Lite Brite pegboard: the Board State Store of the useLiteBriteGPU /     *)
(* useLiteBriteCanvas hooks and the Coordinate Resolver (getClosestPeg)    *)
(* of the LiteBrite component.                                             *)
(*                                                                         *)
(* Typed arrays are objects: the store keeps a reference to one            *)
(* Uint32Array, getBoardState hands another one to the caller.  The model  *)
(* keeps them in a heap indexed by address so that sharing is visible.     *)
(* Arrays are sequences; JS index i is position i + 1.                     *)
(***************************************************************************)
EXTENDS Integers, Sequences, FiniteSets, TLC

VARIABLES
    heap,           \* address -> contents of the Uint32Array living there
    boardStateRef,  \* boardStateRef.current: address of the live grid
    returned,       \* address of the array the caller got from getBoardState (0: none)
    lastCall,       \* the call or frame that produced the current state
    trace,          \* names of the calls and frames so far, oldest first
    animationFrameRef, \* animationFrameRef.current: handle of the pending frame request (0: null)
    painted,        \* what the last frame drew at each peg, <<>> before the first frame
    pointer,        \* canvas-space pointer position [px, py] handed to the resolver
    closestPeg,     \* what getClosestPeg returned for it
    pc,             \* "idle" (store in use) | "aim" (pointer chosen) | "resolved"
    selectedColor,  \* the selectedColor state of the LiteBrite component
    rgb,            \* a pixel [r, g, b] handed to findClosestColorIndex
    closestIndex,   \* what findClosestColorIndex returned for it (-1: not called yet)
    uploads,        \* the uploads started so far: the image and how far its decode got
    mutations,      \* the mutations of the grid in the order they executed
    navigatorGpu,   \* whether navigator.gpu exists in this browser
    useWebGPU,      \* the useWebGPU state of LiteBrite: "null" | "true" | "false"
    checkPc,        \* checkWebGPU: "start" | "requestAdapter" | "done"
    initPc,         \* initWebGPU: "start" | "requestAdapter" | "requestDevice" | "done"
    isSupported,    \* the isSupported state of useLiteBriteGPU
    isReady,        \* the isReady state of useLiteBriteGPU
    error,          \* the error state of useLiteBriteGPU: "null" or a message
    deviceRef,      \* deviceRef.current: the device held (0: null)
    devices,        \* the devices requestDevice has handed out, by number
    mounted,        \* whether the view is mounted (no effect cleanup has run)
    queue,          \* frames submitted to the GPU queue and not yet executed
    presented,      \* what the last executed GPU frame shows at each peg
    handles,        \* the GPU resource refs of useLiteBriteGPU that are not null
    scheduled,      \* the animation frame requests that are pending: id and render effect
    renderEffect,   \* the run of the render effect that is live (0: none)
    cleanedUp,      \* the runs of the render effect whose cleanup has run
    globalId,       \* the pixel [x, y] of one invocation of the compute shader
    outputPixel     \* what that invocation wrote to outputPixels

vars == <<heap, boardStateRef, returned, lastCall, trace, animationFrameRef, painted,
          pointer, closestPeg, pc, selectedColor, rgb, closestIndex, uploads, mutations,
          navigatorGpu, useWebGPU, checkPc, initPc, isSupported, isReady, error, deviceRef,
          devices, mounted, queue, presented, handles, scheduled, renderEffect, cleanedUp,
          globalId, outputPixel>>

storeVars == <<heap, boardStateRef, returned, lastCall, trace>>
frameVars == <<animationFrameRef, painted>>
resolverVars == <<pointer, closestPeg>>
quantizerVars == <<rgb, closestIndex>>
uploadVars == <<uploads, mutations>>
hookStateVars == <<isSupported, isReady, error>>
lifecycleVars == <<navigatorGpu, useWebGPU, checkPc, initPc, hookStateVars, deviceRef, devices,
                   mounted, handles>>
gpuFrameVars == <<queue, presented>>
loopVars == <<scheduled, renderEffect, cleanedUp>>
shaderVars == <<globalId, outputPixel>>
restVars == <<gpuFrameVars, loopVars, shaderVars>>
hostVars == <<lifecycleVars, restVars>>
boardVars == <<heap, boardStateRef, returned, trace, frameVars, resolverVars, pc, selectedColor,
               quantizerVars, uploadVars>>
appVars == <<selectedColor, quantizerVars, uploadVars, hostVars>>

(***************************************************************************)
(* Bounds of the model.                                                    *)
(***************************************************************************)
BOARD_WIDTH == 2        \* pegs per row        (32 in the component)
BOARD_HEIGHT == 3       \* rows of pegs        (24 in the component)
MaxCalls == 3           \* calls on the store explored from creation

(***************************************************************************)
(* Program constants.                                                      *)
(***************************************************************************)
PEG_SPACING == 32

\* a hex colour '#rrggbb' is the sequence of its six hexadecimal digits
COLORS ==
    << [id |-> 1, name |-> "Red", hex |-> <<15, 15, 3, 3, 3, 3>>],
       [id |-> 2, name |-> "Orange", hex |-> <<15, 15, 8, 0, 1, 9>>],
       [id |-> 3, name |-> "Yellow", hex |-> <<15, 15, 15, 15, 3, 3>>],
       [id |-> 4, name |-> "Green", hex |-> <<3, 3, 15, 15, 3, 3>>],
       [id |-> 5, name |-> "Blue", hex |-> <<3, 3, 8, 0, 15, 15>>],
       [id |-> 6, name |-> "Pink", hex |-> <<15, 15, 3, 3, 12, 12>>],
       [id |-> 7, name |-> "White", hex |-> <<15, 15, 15, 15, 15, 15>>],
       [id |-> 8, name |-> "Purple", hex |-> <<9, 9, 3, 3, 15, 15>>],
       [id |-> 0, name |-> "Eraser", hex |-> <<1, 10, 1, 10, 1, 10>>] >>

PaletteIds == {COLORS[i].id : i \in 1..Len(COLORS)}

\* N of the data model: the largest id of the Palette
MaxColorId == CHOOSE n \in PaletteIds : \A m \in PaletteIds : m <= n

boardWidth == BOARD_WIDTH
boardHeight == BOARD_HEIGHT
boardLength == boardWidth * boardHeight

(***************************************************************************)
(* Uint32Array semantics.                                                  *)
(***************************************************************************)
\* storing an integer in a Uint32Array element converts it modulo 2^32:
\* a value in 0..2^31-1 is kept, a negative one has 2^32 added (beyond the
\* integers the checker holds, so the inputs below are not negative)
ToUint32(v) == IF v >= 0 THEN v ELSE ((v + 2147483647) + 1) + 2147483647 + 1

\* new Uint32Array(n): n zero elements
NewUint32Array(n) == [i \in 1..n |-> 0]

\* new Uint32Array(typedArray): a fresh array with the same elements
Uint32ArrayFrom(a) == [i \in 1..Len(a) |-> a[i]]

\* a[i] = v: an index outside the array is ignored
ArrayStore(a, i, v) ==
    IF i >= 0 /\ i < Len(a) THEN [a EXCEPT ![i + 1] = ToUint32(v)] ELSE a

\* target.set(source): copies every element of source to the front of
\* target; a source longer than the target is a RangeError
TypedArraySetRaises(target, source) == Len(source) > Len(target)

\* variant used to test sensitivity: a copy that leaves the first element out
TypedArraySetFromSecond(target, source) ==
    IF TypedArraySetRaises(target, source)
    THEN target
    ELSE [i \in 1..Len(target) |-> IF i > 1 /\ i <= Len(source) THEN source[i] ELSE target[i]]

TypedArraySet(target, source) ==
    IF TypedArraySetRaises(target, source)
    THEN target
    ELSE [i \in 1..Len(target) |-> IF i <= Len(source) THEN source[i] ELSE target[i]]

\* variant used to test sensitivity: a fill that starts at the second element
TypedArrayFillFromSecond(a, v) == [i \in 1..Len(a) |-> IF i > 1 THEN ToUint32(v) ELSE a[i]]

\* a.fill(v)
TypedArrayFill(a, v) == [i \in 1..Len(a) |-> ToUint32(v)]

(***************************************************************************)
(* Inputs the callers are drawn from.                                      *)
(***************************************************************************)
\* cells setPixel is called with: every cell of the board, and cells one
\* step outside it on each side and past two corners
OutsideCells ==
    { <<-1, 0>>, <<boardWidth, 0>>, <<0, -1>>, <<0, boardHeight>>,
      <<boardWidth, boardHeight - 1>>, <<-1, -1>> }
CellInputs == ((0..(boardWidth - 1)) \X (0..(boardHeight - 1))) \cup OutsideCells

\* colour arguments: empty, the last palette id, and the first value past
\* the palette
ColorInputs == {0, MaxColorId, MaxColorId + 1}

\* what a caller writes into the array it holds, and where: the first and
\* the last element
WriteInputs == {1, MaxColorId + 1}
WriteIndices == {0, boardLength - 1}

\* the Color Index of the data model
ColorIndex == 0..MaxColorId

\* Uint32Array arguments of setBoard: empty, too short, exact and too long
\* with a different palette id in every cell, and exact with one value, the
\* last palette id or the first value past the palette
DataLengths == {0, boardLength - 1, boardLength, boardLength + 1}
RampData(n) == [i \in 1..n |-> 1 + ((i - 1) % MaxColorId)]
ConstData(n, v) == [i \in 1..n |-> v]
BoardInputs ==
    {RampData(n) : n \in DataLengths}
        \cup {ConstData(boardLength, v) : v \in {MaxColorId, MaxColorId + 1}}

\* a call of the hook's interface with its arguments, and whether it threw
Call(op, x, y, colorIndex, data, raised) ==
    [op |-> op, x |-> x, y |-> y, colorIndex |-> colorIndex, data |-> data, raised |-> raised]

NoCall == Call("create", 0, 0, 0, <<>>, FALSE)

\* the live grid
board == heap[boardStateRef]

(***************************************************************************)
(* Board State Store: setPixel, setBoard, clearBoard and getBoardState, the *)
(* same text in useLiteBriteGPU and in useLiteBriteCanvas.                 *)
(***************************************************************************)
\* variant used to test sensitivity: bounds that admit x = width and y = height
inBoundsInclusive(x, y) == x >= 0 /\ x <= boardWidth /\ y >= 0 /\ y <= boardHeight

\* if (x >= 0 && x < boardWidth && y >= 0 && y < boardHeight)
inBounds(x, y) == x >= 0 /\ x < boardWidth /\ y >= 0 /\ y < boardHeight

\* variant used to test sensitivity: cells numbered column by column
cellIndexColumnMajor(x, y) == x * boardHeight + y

\* y * boardWidth + x
cellIndex(x, y) == y * boardWidth + x

\* variant used to test sensitivity: the colour stored is one too high
setPixelOneBased(x, y, colorIndex) ==
    /\ pc = "idle"
    /\ Len(trace) < MaxCalls
    /\ heap' = IF inBounds(x, y)
               THEN [heap EXCEPT ![boardStateRef] = ArrayStore(@, cellIndex(x, y), colorIndex + 1)]
               ELSE heap
    /\ lastCall' = Call("setPixel", x, y, colorIndex, <<>>, FALSE)
    /\ trace' = Append(trace, "setPixel")
    /\ UNCHANGED <<boardStateRef, returned, frameVars, pointer, closestPeg, pc, appVars>>

setPixel(x, y, colorIndex) ==
    /\ pc = "idle"
    /\ Len(trace) < MaxCalls
    /\ heap' = IF inBounds(x, y)
               THEN [heap EXCEPT ![boardStateRef] = ArrayStore(@, cellIndex(x, y), colorIndex)]
               ELSE heap
    /\ lastCall' = Call("setPixel", x, y, colorIndex, <<>>, FALSE)
    /\ trace' = Append(trace, "setPixel")
    /\ UNCHANGED <<boardStateRef, returned, frameVars, pointer, closestPeg, pc, appVars>>

\* variant used to test sensitivity: shorter arrays are accepted too
setBoardAcceptsShorter(data) == Len(data) <= Len(board)

\* if (data.length === boardStateRef.current.length)
setBoardAccepts(data) == Len(data) = Len(board)

\* variant used to test sensitivity: the argument becomes the grid, unchecked
setBoardReplacesArray(data) ==
    /\ pc = "idle"
    /\ Len(trace) < MaxCalls
    /\ heap' = [heap EXCEPT ![boardStateRef] = data]
    /\ lastCall' = Call("setBoard", 0, 0, 0, data, FALSE)
    /\ trace' = Append(trace, "setBoard")
    /\ UNCHANGED <<boardStateRef, returned, frameVars, pointer, closestPeg, pc, appVars>>

setBoard(data) ==
    /\ pc = "idle"
    /\ Len(trace) < MaxCalls
    /\ heap' = IF setBoardAccepts(data)
               THEN [heap EXCEPT ![boardStateRef] = TypedArraySet(@, data)]
               ELSE heap
    /\ lastCall' = Call("setBoard", 0, 0, 0, data,
                        setBoardAccepts(data) /\ TypedArraySetRaises(board, data))
    /\ trace' = Append(trace, "setBoard")
    /\ UNCHANGED <<boardStateRef, returned, frameVars, pointer, closestPeg, pc, appVars>>

clearBoard ==
    /\ pc = "idle"
    /\ Len(trace) < MaxCalls
    /\ heap' = [heap EXCEPT ![boardStateRef] = TypedArrayFill(@, 0)]
    /\ lastCall' = Call("clearBoard", 0, 0, 0, <<>>, FALSE)
    /\ trace' = Append(trace, "clearBoard")
    /\ UNCHANGED <<boardStateRef, returned, frameVars, pointer, closestPeg, pc, appVars>>

\* the array a getBoardState call made now would return
snapshot == Uint32ArrayFrom(board)

\* the address a newly constructed array gets: the caller's previous array
\* is dropped, so the only live one is the grid
NewAddress == CHOOSE a \in 1..2 : a # boardStateRef

\* variant used to test sensitivity: the live grid itself is returned
getBoardStateShared ==
    /\ pc = "idle"
    /\ Len(trace) < MaxCalls
    /\ returned' = boardStateRef
    /\ heap' = [a \in {boardStateRef} |-> board]
    /\ lastCall' = Call("getBoardState", 0, 0, 0, <<>>, FALSE)
    /\ trace' = Append(trace, "getBoardState")
    /\ UNCHANGED <<boardStateRef, frameVars, pointer, closestPeg, pc, appVars>>

\* return new Uint32Array(boardStateRef.current)
getBoardState ==
    /\ pc = "idle"
    /\ Len(trace) < MaxCalls
    /\ returned' = NewAddress
    /\ heap' = [a \in {boardStateRef, NewAddress} |->
                    IF a = boardStateRef THEN board ELSE Uint32ArrayFrom(board)]
    /\ lastCall' = Call("getBoardState", 0, 0, 0, <<>>, FALSE)
    /\ trace' = Append(trace, "getBoardState")
    /\ UNCHANGED <<boardStateRef, frameVars, pointer, closestPeg, pc, appVars>>

\* the caller writes element i of the array it holds
callerWrite(i, v) ==
    /\ pc = "idle"
    /\ Len(trace) < MaxCalls
    /\ returned # 0
    /\ heap' = [heap EXCEPT ![returned] = ArrayStore(@, i, v)]
    /\ lastCall' = Call("callerWrite", i, 0, v, <<>>, FALSE)
    /\ trace' = Append(trace, "callerWrite")
    /\ UNCHANGED <<boardStateRef, returned, frameVars, pointer, closestPeg, pc, appVars>>

(***************************************************************************)
(* A frame of the sequential fallback: render of useLiteBriteCanvas.       *)
(***************************************************************************)
\* '#000000', the colour of an index the palette does not hold
Black == <<0, 0, 0, 0, 0, 0>>

\* '#020202', the fill of an empty peg hole
HoleFill == <<0, 2, 0, 2, 0, 2>>

\* const color = COLORS.find(c => c.id === colorIndex); color ? color.hex : '#000000'
getColorById(colorIndex) ==
    IF \E i \in 1..Len(COLORS) : COLORS[i].id = colorIndex
    THEN COLORS[CHOOSE i \in 1..Len(COLORS) :
                    /\ COLORS[i].id = colorIndex
                    /\ \A j \in 1..(i - 1) : COLORS[j].id # colorIndex].hex
    ELSE Black

\* where render draws the peg of cell (x, y):
\* const centerX = x * PEG_SPACING + PEG_SPACING / 2, centerY likewise
canvasPegCenter(x, y) ==
    [px |-> x * PEG_SPACING + PEG_SPACING \div 2, py |-> y * PEG_SPACING + PEG_SPACING \div 2]

\* the colour drawn at the centre of each peg, row by row
drawPegs(b) == [i \in 1..Len(b) |-> IF b[i] > 0 THEN getColorById(b[i]) ELSE HoleFill]

\* one run of render: without a canvas or a 2d context it only asks for the
\* next frame, otherwise it draws every peg of the live grid and then asks
\* for the next frame
render(canDraw) ==
    /\ pc = "idle"
    /\ Len(trace) < MaxCalls
    /\ painted' = IF canDraw THEN drawPegs(board) ELSE painted
    /\ animationFrameRef' = animationFrameRef + 1
    /\ lastCall' = Call("render", 0, 0, 0, <<>>, FALSE)
    /\ trace' = Append(trace, "render")
    /\ UNCHANGED <<heap, boardStateRef, returned, pointer, closestPeg, pc, appVars>>

NoPeg == [x |-> -1, y |-> -1]

\* useRef(new Uint32Array(boardWidth * boardHeight))
InitStore ==
    /\ boardStateRef = 1
    /\ heap = [a \in {1} |-> NewUint32Array(boardWidth * boardHeight)]
    /\ returned = 0
    /\ lastCall = NoCall
    /\ trace = <<>>
    /\ animationFrameRef = 0
    /\ painted = <<>>

\* the component before any interaction: useState(1) selects Red, no pixel
\* was classified, no upload was started
InitInteraction == selectedColor = 1

InitQuantizerIdle ==
    /\ rgb = [r |-> 0, g |-> 0, b |-> 0]
    /\ closestIndex = -1

InitUploads ==
    /\ uploads = <<>>
    /\ mutations = <<>>

\* the refs initWebGPU assigns once it holds a device, in the order of the
\* assignments
HandleOrder ==
    <<"context", "pipeline", "paramsBuffer", "boardStateBuffer", "outputBuffer", "bindGroup",
      "renderTexture", "sampler", "renderPipeline", "blitBindGroup">>

\* the refs that are assigned once the first k assignments have run
AssignedAfter(k) == {HandleOrder[i] : i \in 1..k}

\* no render effect has run and no shader invocation is looked at
InitIdle ==
    /\ scheduled = {}
    /\ renderEffect = 0
    /\ cleanedUp = {}
    /\ globalId = [x |-> 0, y |-> 0]
    /\ outputPixel = <<>>

\* the hooks before their effects have run: useState(null), useState(true),
\* useState(false), useState(null), useRef(null)
InitHost ==
    /\ navigatorGpu = TRUE
    /\ useWebGPU = "null"
    /\ checkPc = "start"
    /\ initPc = "start"
    /\ isSupported = TRUE
    /\ isReady = FALSE
    /\ error = "null"
    /\ deviceRef = 0
    /\ devices = <<>>
    /\ mounted = TRUE
    /\ handles = {}
    /\ queue = <<>>
    /\ presented = <<>>
    /\ InitIdle

InitApp ==
    /\ InitInteraction
    /\ InitQuantizerIdle
    /\ InitUploads
    /\ InitHost

Init ==
    /\ InitStore
    /\ InitApp
    /\ pointer = [px |-> 0, py |-> 0]
    /\ closestPeg = NoPeg
    /\ pc = "idle"

Next ==
    \/ \E cell \in CellInputs, k \in ColorInputs : setPixel(cell[1], cell[2], k)
    \/ \E data \in BoardInputs : setBoard(data)
    \/ clearBoard
    \/ getBoardState
    \/ \E i \in WriteIndices, v \in WriteInputs : callerWrite(i, v)
    \/ \E canDraw \in BOOLEAN : render(canDraw)

Spec == Init /\ [][Next]_vars

(***************************************************************************)
(* Coordinate Resolver: getClosestPeg of the LiteBrite component, from the *)
(* canvas-space position (px, py) on.  Positions are whole canvas pixels.  *)
(***************************************************************************)
\* Math.floor(n / d) for d > 0
MathFloor(n, d) == n \div d

\* Math.round(n / d) for d > 0: the nearest integer, a half goes up
MathRound(n, d) == (2 * n + d) \div (2 * d)

\* let minDistanceSq = Infinity: no distance, all of them >= 0, is below it
Infinity == -1

\* variant used to test sensitivity: no row is staggered
rowOffsetUnstaggered(r) == 0

\* const rowOffset = (r % 2 !== 0) ? (PEG_SPACING / 2) : 0
rowOffset(r) == IF r % 2 # 0 THEN PEG_SPACING \div 2 ELSE 0

\* const c = Math.round((px - rowOffset - (PEG_SPACING / 2)) / PEG_SPACING)
candidateColumn(px, r) ==
    MathRound(px - rowOffset(r) - (PEG_SPACING \div 2), PEG_SPACING)

\* the PHYSICAL center of peg (c, r) in pixel space
centerX(c, r) == c * PEG_SPACING + (PEG_SPACING \div 2) + rowOffset(r)
centerY(r) == r * PEG_SPACING + (PEG_SPACING \div 2)

\* dx * dx + dy * dy
distSq(px, py, c, r) ==
    (px - centerX(c, r)) * (px - centerX(c, r)) + (py - centerY(r)) * (py - centerY(r))

\* if (distSq < minDistanceSq)
closer(d, minDistanceSq) == minDistanceSq = Infinity \/ d < minDistanceSq

\* one pass of the loop body for row r; best = [peg, minDistanceSq]
checkRow(px, py, r, best) ==
    IF r < 0 \/ r >= BOARD_HEIGHT
    THEN best
    ELSE LET c == candidateColumn(px, r)
         IN  IF c < 0 \/ c >= BOARD_WIDTH
             THEN best
             ELSE IF closer(distSq(px, py, c, r), best.minDistanceSq)
                  THEN [peg |-> [x |-> c, y |-> r],
                        minDistanceSq |-> distSq(px, py, c, r)]
                  ELSE best

\* for (let r = roughRow - 1; r <= roughRow + 1; r++)
RECURSIVE scanRows(_, _, _, _, _)
scanRows(px, py, r, lastRow, best) ==
    IF r > lastRow
    THEN best
    ELSE scanRows(px, py, r + 1, lastRow, checkRow(px, py, r, best))

\* variant used to test sensitivity: only the pointer's own row is looked at
getClosestPegOwnRow(px, py) ==
    LET roughRow == MathFloor(py, PEG_SPACING)
    IN  scanRows(px, py, roughRow, roughRow,
                 [peg |-> NoPeg, minDistanceSq |-> Infinity]).peg

getClosestPeg(px, py) ==
    LET roughRow == MathFloor(py, PEG_SPACING)
    IN  scanRows(px, py, roughRow - 1, roughRow + 1,
                 [peg |-> NoPeg, minDistanceSq |-> Infinity]).peg

\* canvas.width and canvas.height: BOARD_WIDTH * PEG_SPACING by BOARD_HEIGHT * PEG_SPACING
canvasWidth == BOARD_WIDTH * PEG_SPACING
canvasHeight == BOARD_HEIGHT * PEG_SPACING

\* pointer positions: the canvas, and its right edge, where the centre of
\* the last peg of a staggered row lies
PointerXs == 0..canvasWidth
PointerYs == 0..(canvasHeight - 1)

InitResolver ==
    /\ InitStore
    /\ InitApp
    /\ pointer \in [px : PointerXs, py : PointerYs]
    /\ closestPeg = NoPeg
    /\ pc = "aim"

resolve ==
    /\ pc = "aim"
    /\ closestPeg' = getClosestPeg(pointer.px, pointer.py)
    /\ pc' = "resolved"
    /\ UNCHANGED <<storeVars, frameVars, pointer, appVars>>

NextResolver == resolve

ResolverSpec == InitResolver /\ [][NextResolver]_vars

(***************************************************************************)
(* Properties of the Board State Store.  lastCall' is the call a step      *)
(* makes; the unprimed grid is the grid before the call.                   *)
(***************************************************************************)
\* a Peg Cell Coordinate of the data model
ValidCell(col, row) == col \in 0..(BOARD_WIDTH - 1) /\ row \in 0..(BOARD_HEIGHT - 1)

AllZero == [i \in 1..(BOARD_WIDTH * BOARD_HEIGHT) |-> 0]

FullRamp == RampData(BOARD_WIDTH * BOARD_HEIGHT)

LastTwo(first, second) ==
    /\ Len(trace) >= 2
    /\ trace[Len(trace) - 1] = first
    /\ trace[Len(trace)] = second

\* C1: a setPixel(col, row, k) on an in-bounds cell with a colour index k
\* leaves a grid whose snapshot holds k at index row * width + col and, in
\* every other cell, the value the cell had before the call.
C1_SetPixelChangesExactlyThatCell ==
    [][(/\ lastCall'.op = "setPixel"
        /\ ValidCell(lastCall'.x, lastCall'.y)
        /\ lastCall'.colorIndex \in ColorIndex)
       => /\ Len(snapshot') = Len(snapshot)
          /\ \A i \in 1..Len(snapshot') :
                snapshot'[i] = IF i = lastCall'.y * BOARD_WIDTH + lastCall'.x + 1
                               THEN lastCall'.colorIndex
                               ELSE snapshot[i]]_vars

\* a setPixel has just put the last palette id into the last cell of the
\* second row of a grid that holds a different id in every cell
C1_Witness ==
    /\ trace = <<"setBoard", "setPixel">>
    /\ lastCall.x = BOARD_WIDTH - 1 /\ lastCall.y = 1
    /\ lastCall.colorIndex = MaxColorId
    /\ board[2 * BOARD_WIDTH] = MaxColorId
    /\ \A i \in 1..Len(board) : i # 2 * BOARD_WIDTH => board[i] = FullRamp[i]

\* C2: a setPixel whose column or row lies outside the board changes no
\* cell and raises no error.
C2_OutOfBoundsSetPixelIsNoOp ==
    [][(lastCall'.op = "setPixel" /\ ~ValidCell(lastCall'.x, lastCall'.y))
       => (snapshot' = snapshot /\ ~lastCall'.raised)]_vars

\* setPixel with col = width has just run on a grid that is not empty
C2_Witness ==
    /\ trace = <<"setBoard", "setPixel">>
    /\ lastCall.x = BOARD_WIDTH /\ lastCall.y = 0
    /\ lastCall.colorIndex = MaxColorId
    /\ board = FullRamp

\* C3: a setBoard whose argument has a length other than width * height
\* leaves every cell unchanged and raises no error.
C3_MismatchedSetBoardIsNoOp ==
    [][(lastCall'.op = "setBoard" /\ Len(lastCall'.data) # BOARD_WIDTH * BOARD_HEIGHT)
       => (snapshot' = snapshot /\ ~lastCall'.raised)]_vars

\* a setBoard one element short has just run on a grid holding one peg
C3_Witness ==
    /\ trace = <<"setPixel", "setBoard">>
    /\ Len(lastCall.data) = BOARD_WIDTH * BOARD_HEIGHT - 1
    /\ lastCall.data[1] # 0
    /\ board[1] = MaxColorId
    /\ \A i \in 2..Len(board) : board[i] = 0

\* C4: after a setBoard whose argument D has length width * height the
\* snapshot equals D cell for cell.
C4_SetBoardReplacesWholeGrid ==
    [][(lastCall'.op = "setBoard" /\ Len(lastCall'.data) = BOARD_WIDTH * BOARD_HEIGHT)
       => snapshot' = lastCall'.data]_vars

\* a full-length setBoard has just replaced a grid that held other values
C4_Witness ==
    /\ trace = <<"setPixel", "setBoard", "setBoard">>
    /\ lastCall.data = FullRamp
    /\ board = FullRamp

\* C5: a getBoardState that follows a clearBoard returns an array of
\* length width * height in which every cell is 0.
C5_ClearThenSnapshotIsAllZero ==
    LastTwo("clearBoard", "getBoardState") => heap[returned] = AllZero

\* setBoard, clearBoard, getBoardState have run in this order
C5_Witness ==
    /\ trace = <<"setBoard", "clearBoard", "getBoardState">>
    /\ heap[returned] = AllZero

\* the calls that mutate the grid
Mutators == {"setPixel", "setBoard", "clearBoard"}

\* C6: the array getBoardState returned holds the grid as it was at the
\* call; no later setPixel, setBoard or clearBoard changes it, and a write
\* of the caller into it does not change the live grid.
C6_SnapshotIsIndependentCopy ==
    [][/\ lastCall'.op = "getBoardState" => heap'[returned'] = board
       /\ (returned # 0 /\ lastCall'.op \in Mutators) => heap'[returned'] = heap[returned]
       /\ lastCall'.op = "callerWrite" => board' = board]_vars

\* the grid was mutated after the caller took its copy, and the two differ
C6_Witness ==
    /\ trace = <<"setBoard", "getBoardState", "setPixel">>
    /\ returned # 0
    /\ heap[returned] = FullRamp
    /\ board # FullRamp

\* C7: the grid has width * height cells in every reachable state.
C7_BoardLengthIsFixed == Len(board) = BOARD_WIDTH * BOARD_HEIGHT

\* a frame, a setBoard with one element too many, and a frame
C7_Witness ==
    /\ trace = <<"render", "setBoard", "render">>
    /\ painted # <<>>
    /\ Len(board) = BOARD_WIDTH * BOARD_HEIGHT

AllCellsInPalette(b) == \A i \in 1..Len(b) : b[i] \in ColorIndex

\* the colour arguments of a call are Color Indices
ArgumentsInPalette(call) ==
    /\ call.op = "setPixel" => call.colorIndex \in ColorIndex
    /\ call.op = "setBoard" => AllCellsInPalette(call.data)

\* C8 as stated: every cell of the grid holds a Color Index in [0, N]
\* whatever setPixel, setBoard and clearBoard calls were made.
C8_EveryCellInPalette == AllCellsInPalette(board)

\* C8 amended: a call whose colour arguments are Color Indices keeps every
\* cell in [0, N]; the grid starts all 0, so it stays in [0, N] for as long
\* as the callers pass Color Indices.
C8_ValidArgumentsKeepCellsInPalette ==
    [][(AllCellsInPalette(board) /\ ArgumentsInPalette(lastCall'))
       => AllCellsInPalette(board')]_vars

\* setPixel has just stored the last palette id next to other pegs
C8_Witness ==
    /\ trace = <<"setBoard", "setPixel">>
    /\ ValidCell(lastCall.x, lastCall.y)
    /\ lastCall.colorIndex = MaxColorId
    /\ board[lastCall.y * BOARD_WIDTH + lastCall.x + 1] = MaxColorId
    /\ AllCellsInPalette(board)

(***************************************************************************)
(* Properties of the Coordinate Resolver.                                  *)
(***************************************************************************)
\* the physical centre of cell (c, r), rows of odd index shifted right by
\* half the spacing
PegCentre(c, r) ==
    [px |-> c * PEG_SPACING + PEG_SPACING \div 2
                + (IF r % 2 = 1 THEN PEG_SPACING \div 2 ELSE 0),
     py |-> r * PEG_SPACING + PEG_SPACING \div 2]

SquaredDistance(p, q) ==
    (p.px - q.px) * (p.px - q.px) + (p.py - q.py) * (p.py - q.py)

\* C9: the resolver applied to the physical centre of cell (c, r) returns
\* (c, r).
C9_ResolverRoundTrip ==
    pc = "resolved" =>
        \A c \in 0..(BOARD_WIDTH - 1), r \in 0..(BOARD_HEIGHT - 1) :
            pointer = PegCentre(c, r) => closestPeg = [x |-> c, y |-> r]

\* the centre of the last peg of the staggered second row was resolved
C9_Witness ==
    /\ pc = "resolved"
    /\ pointer = PegCentre(BOARD_WIDTH - 1, 1)
    /\ closestPeg = [x |-> BOARD_WIDTH - 1, y |-> 1]

\* C10: for a pointer inside the canvas the resolver returns a cell of the
\* board, and no cell of the board has its physical centre strictly closer
\* to the pointer.
C10_ResolverReturnsClosestPeg ==
    (pc = "resolved" /\ pointer.px < BOARD_WIDTH * PEG_SPACING) =>
        /\ ValidCell(closestPeg.x, closestPeg.y)
        /\ \A c \in 0..(BOARD_WIDTH - 1), r \in 0..(BOARD_HEIGHT - 1) :
              SquaredDistance(pointer, PegCentre(c, r))
                  >= SquaredDistance(pointer, PegCentre(closestPeg.x, closestPeg.y))

\* the point halfway between the centres of (c, r) and (c, r + 1), which lie
\* half a spacing apart horizontally
Halfway(c, r) ==
    [px |-> (PegCentre(c, r).px + PegCentre(c, r + 1).px) \div 2,
     py |-> (PegCentre(c, r).py + PegCentre(c, r + 1).py) \div 2]

\* C11: for a pointer inside the canvas the resolver returns a cell of the
\* board and never the no-cell value (-1, -1); the point halfway between two
\* vertically adjacent staggered cells resolves to one of the two.  The
\* result is a function of the pointer position alone.
C11_InsideCanvasResolvesToACell ==
    (/\ pc = "resolved"
     /\ pointer.px \in 0..(BOARD_WIDTH * PEG_SPACING - 1)
     /\ pointer.py \in 0..(BOARD_HEIGHT * PEG_SPACING - 1))
    => /\ closestPeg # NoPeg
       /\ ValidCell(closestPeg.x, closestPeg.y)
       /\ \A c \in 0..(BOARD_WIDTH - 1), r \in 0..(BOARD_HEIGHT - 2) :
             pointer = Halfway(c, r)
                 => closestPeg \in {[x |-> c, y |-> r], [x |-> c, y |-> r + 1]}

\* the point halfway between (0, 1) and (0, 2), at equal distance of both,
\* was resolved to the upper of the two
C11_Witness ==
    /\ pc = "resolved"
    /\ pointer = Halfway(0, 1)
    /\ SquaredDistance(pointer, PegCentre(0, 1)) = SquaredDistance(pointer, PegCentre(0, 2))
    /\ closestPeg = [x |-> 0, y |-> 1]

(***************************************************************************)
(* The handlers of the LiteBrite component (LiteBriteWebGPU and            *)
(* LiteBriteCanvas2D carry the same text), from the canvas-space position  *)
(* of the event on.  Each handler runs to completion before the next       *)
(* event, promise reaction or frame is served.                             *)
(***************************************************************************)
\* what the setPixel callback leaves in the heap
heapAfterSetPixel(x, y, colorIndex) ==
    IF inBounds(x, y)
    THEN [heap EXCEPT ![boardStateRef] = ArrayStore(@, cellIndex(x, y), colorIndex)]
    ELSE heap

\* event positions: the point halfway between (0, 1) and (0, 2), the left
\* edge at the height of row 1, the last pixel of the canvas, and a
\* position off the canvas
PointerInputs ==
    { [px |-> PEG_SPACING - PEG_SPACING \div 4, py |-> 2 * PEG_SPACING],
      [px |-> 0, py |-> PEG_SPACING + PEG_SPACING \div 2],
      [px |-> canvasWidth - 1, py |-> canvasHeight - 1],
      [px |-> -1, py |-> 0] }

\* e.touches of a touch event: none, or two of which the first, a touch
\* that began off the canvas to its right, counts
TouchInputs ==
    { <<>>,
      << [px |-> canvasWidth + PEG_SPACING, py |-> PEG_SPACING \div 2],
         [px |-> PEG_SPACING \div 2, py |-> PEG_SPACING \div 2] >> }

\* the colour picked in the palette: the eraser (Red is selected at first)
SelectInputs == {0}

\* onColorSelect(color.id) of the ColorPalette: setSelectedColor
selectColor(colorId) ==
    /\ pc = "idle"
    /\ Len(trace) < MaxCalls
    /\ selectedColor' = colorId
    /\ lastCall' = Call("selectColor", 0, 0, colorId, <<>>, FALSE)
    /\ trace' = Append(trace, "selectColor")
    /\ UNCHANGED <<heap, boardStateRef, returned, frameVars, resolverVars, pc,
                   quantizerVars, hostVars, uploadVars>>

\* the body shared by handleCanvasClick and handleTouchStart once the event
\* position (px, py) is known: resolve, then setPixel unless no peg was found
placePeg(px, py) ==
    LET peg == getClosestPeg(px, py)
    IN  /\ pointer' = [px |-> px, py |-> py]
        /\ closestPeg' = peg
        /\ IF peg.x # -1 /\ peg.y # -1
           THEN /\ heap' = heapAfterSetPixel(peg.x, peg.y, selectedColor)
                /\ mutations' = Append(mutations,
                                       Call("setPixel", peg.x, peg.y, selectedColor, <<>>, FALSE))
           ELSE UNCHANGED <<heap, mutations>>

\* variant used to test sensitivity: the cell is the one the position falls
\* into when rows are not staggered
handleCanvasClickFloor(px, py) ==
    /\ pc = "idle"
    /\ Len(trace) < MaxCalls
    /\ pointer' = [px |-> px, py |-> py]
    /\ closestPeg' = [x |-> MathFloor(px, PEG_SPACING), y |-> MathFloor(py, PEG_SPACING)]
    /\ heap' = heapAfterSetPixel(MathFloor(px, PEG_SPACING), MathFloor(py, PEG_SPACING),
                                 selectedColor)
    /\ mutations' = Append(mutations,
                           Call("setPixel", MathFloor(px, PEG_SPACING),
                                MathFloor(py, PEG_SPACING), selectedColor, <<>>, FALSE))
    /\ lastCall' = Call("handleCanvasClick", px, py, selectedColor, <<px, py>>, FALSE)
    /\ trace' = Append(trace, "handleCanvasClick")
    /\ UNCHANGED <<boardStateRef, returned, frameVars, pc, selectedColor, quantizerVars, hostVars, uploads>>

\* onMouseDown of the canvas
handleCanvasClick(px, py) ==
    /\ pc = "idle"
    /\ Len(trace) < MaxCalls
    /\ placePeg(px, py)
    /\ lastCall' = Call("handleCanvasClick", px, py, selectedColor, <<px, py>>, FALSE)
    /\ trace' = Append(trace, "handleCanvasClick")
    /\ UNCHANGED <<boardStateRef, returned, frameVars, pc, selectedColor, quantizerVars, hostVars, uploads>>

\* onTouchStart of the canvas: touches[0] is the position, no touch no peg
handleTouchStart(touches) ==
    /\ pc = "idle"
    /\ Len(trace) < MaxCalls
    /\ IF Len(touches) = 0
       THEN /\ lastCall' = Call("handleTouchStart", 0, 0, selectedColor, <<>>, FALSE)
            /\ UNCHANGED <<heap, mutations, resolverVars>>
       ELSE /\ placePeg(touches[1].px, touches[1].py)
            /\ lastCall' = Call("handleTouchStart", touches[1].px, touches[1].py, selectedColor,
                                <<touches[1].px, touches[1].py>>, FALSE)
    /\ trace' = Append(trace, "handleTouchStart")
    /\ UNCHANGED <<boardStateRef, returned, frameVars, pc, selectedColor, quantizerVars, hostVars, uploads>>

\* onClear: clearBoard()
handleClear ==
    /\ pc = "idle"
    /\ Len(trace) < MaxCalls
    /\ heap' = [heap EXCEPT ![boardStateRef] = TypedArrayFill(@, 0)]
    /\ mutations' = Append(mutations, Call("clearBoard", 0, 0, 0, <<>>, FALSE))
    /\ lastCall' = Call("handleClear", 0, 0, 0, <<>>, FALSE)
    /\ trace' = Append(trace, "handleClear")
    /\ UNCHANGED <<boardStateRef, returned, frameVars, resolverVars, pc, selectedColor,
                   quantizerVars, hostVars, uploads>>

(***************************************************************************)
(* Image Quantizer: findClosestColorIndex of utils/imageProcessing.        *)
(***************************************************************************)
\* a hexadecimal digit as a number
HexDigit == 0..15

\* hexToRgb: three pairs of hexadecimal digits, or black for anything else
hexToRgb(hex) ==
    IF Len(hex) = 6 /\ \A i \in 1..6 : hex[i] \in HexDigit
    THEN [r |-> 16 * hex[1] + hex[2], g |-> 16 * hex[3] + hex[4], b |-> 16 * hex[5] + hex[6]]
    ELSE [r |-> 0, g |-> 0, b |-> 0]

\* getColorDistance is the square root of this sum; the square root is
\* strictly increasing on the integers 0..3 * 255^2, so two distances
\* compare as their squares do
getColorDistanceSq(c1, c2) ==
    (c1.r - c2.r) * (c1.r - c2.r) + (c1.g - c2.g) * (c1.g - c2.g)
        + (c1.b - c2.b) * (c1.b - c2.b)

\* variant used to test sensitivity: an equal distance replaces the entry too
nearerOrEqual(distance, minDistance) == minDistance = Infinity \/ distance <= minDistance

\* if (distance < minDistance), minDistance starting at Infinity
nearer(distance, minDistance) == minDistance = Infinity \/ distance < minDistance

\* the callback of COLORS.forEach; acc = [minDistance, closestIndex]
visitColor(color, c, acc) ==
    IF color.id = 0
    THEN acc
    ELSE LET distance == getColorDistanceSq(c, hexToRgb(color.hex))
         IN  IF nearer(distance, acc.minDistance)
             THEN [minDistance |-> distance, closestIndex |-> color.id]
             ELSE acc

\* COLORS.forEach from entry i on
RECURSIVE forEachColor(_, _, _)
forEachColor(i, c, acc) ==
    IF i > Len(COLORS)
    THEN acc
    ELSE forEachColor(i + 1, c, visitColor(COLORS[i], c, acc))

findClosestColorIndex(r, g, b) ==
    IF r < 30 /\ g < 30 /\ b < 30
    THEN 0
    ELSE forEachColor(1, [r |-> r, g |-> g, b |-> b],
                      [minDistance |-> Infinity, closestIndex |-> 0]).closestIndex

\* channel values of the pixels classified: both sides of the darkness
\* threshold, channel values of palette colours, and the ends of the range
Channels == {0, 29, 30, 51, 128, 255}

InitQuantizer ==
    /\ InitStore
    /\ InitInteraction
    /\ InitUploads
    /\ InitHost
    /\ pointer = [px |-> 0, py |-> 0]
    /\ closestPeg = NoPeg
    /\ rgb \in [r : Channels, g : Channels, b : Channels]
    /\ closestIndex = -1
    /\ pc = "sample"

classify ==
    /\ pc = "sample"
    /\ closestIndex' = findClosestColorIndex(rgb.r, rgb.g, rgb.b)
    /\ pc' = "classified"
    /\ UNCHANGED <<storeVars, frameVars, resolverVars, selectedColor, rgb, uploadVars, hostVars>>

NextQuantizer == classify

QuantizerSpec == InitQuantizer /\ [][NextQuantizer]_vars

(***************************************************************************)
(* Properties of the Image Quantizer.                                      *)
(***************************************************************************)
\* the squared Euclidean RGB distance of the classified pixel to entry i
PaletteDistance(i) ==
    (rgb.r - hexToRgb(COLORS[i].hex).r) * (rgb.r - hexToRgb(COLORS[i].hex).r)
        + (rgb.g - hexToRgb(COLORS[i].hex).g) * (rgb.g - hexToRgb(COLORS[i].hex).g)
        + (rgb.b - hexToRgb(COLORS[i].hex).b) * (rgb.b - hexToRgb(COLORS[i].hex).b)

\* the positions of the non-zero entries in palette enumeration order
NonZeroEntries == {i \in 1..Len(COLORS) : COLORS[i].id # 0}

\* C13: findClosestColorIndex returns 0 when all three channels are below
\* 30; otherwise the id of the non-zero palette entry at minimum Euclidean
\* RGB distance, the first in enumeration order when several are at the
\* minimum.
C13_ClosestColorIndex ==
    pc = "classified" =>
        IF rgb.r < 30 /\ rgb.g < 30 /\ rgb.b < 30
        THEN closestIndex = 0
        ELSE \E i \in NonZeroEntries :
                /\ closestIndex = COLORS[i].id
                /\ \A j \in NonZeroEntries : PaletteDistance(j) >= PaletteDistance(i)
                /\ \A j \in NonZeroEntries : j < i => PaletteDistance(j) > PaletteDistance(i)

\* a pixel at the same, minimum, distance of Red (entry 1) and Green
\* (entry 4) was classified as Red
C13_Witness ==
    /\ pc = "classified"
    /\ rgb = [r |-> 0, g |-> 0, b |-> 30]
    /\ PaletteDistance(1) = PaletteDistance(4)
    /\ \A j \in NonZeroEntries : PaletteDistance(j) >= PaletteDistance(1)
    /\ closestIndex = 1

(***************************************************************************)
(* Image Quantizer: processImageToBoard.  An image is a decoded bitmap of  *)
(* one opaque colour, [width, height, fill], or a file that does not       *)
(* decode.  Lengths on the canvas are exact fractions of a canvas pixel.   *)
(***************************************************************************)
Image(width, height, fill, decodes) ==
    [width |-> width, height |-> height, fill |-> fill, decodes |-> decodes]

\* Math.min(boardWidth / img.width, boardHeight / img.height) as num / den
containScale(img, bw, bh) ==
    IF bw * img.height <= bh * img.width
    THEN [num |-> bw, den |-> img.width]
    ELSE [num |-> bh, den |-> img.height]

\* the unit of length below: 1 / (2 * den) of a canvas pixel
pixelUnit(img, bw, bh) == 2 * containScale(img, bw, bh).den

\* w = img.width * scale and h = img.height * scale, in units
drawnWidth(img, bw, bh) == 2 * img.width * containScale(img, bw, bh).num
drawnHeight(img, bw, bh) == 2 * img.height * containScale(img, bw, bh).num

\* x = (boardWidth - w) / 2 and y = (boardHeight - h) / 2, in units
drawnLeft(img, bw, bh) == (bw * pixelUnit(img, bw, bh) - drawnWidth(img, bw, bh)) \div 2
drawnTop(img, bw, bh) == (bh * pixelUnit(img, bw, bh) - drawnHeight(img, bw, bh)) \div 2

Min(a, b) == IF a <= b THEN a ELSE b
Max(a, b) == IF a >= b THEN a ELSE b

\* how much of canvas pixel i, [i, i + 1), the span [lo, lo + len) covers
covered(lo, len, i, unit) ==
    Max(0, Min(lo + len, (i + 1) * unit) - Max(lo, i * unit))

\* the part of canvas pixel (i, j) under the drawn image, as num / den
coverage(img, bw, bh, i, j) ==
    LET unit == pixelUnit(img, bw, bh)
    IN  [num |-> covered(drawnLeft(img, bw, bh), drawnWidth(img, bw, bh), i, unit)
                    * covered(drawnTop(img, bw, bh), drawnHeight(img, bw, bh), j, unit),
         den |-> unit * unit]

\* variant used to test sensitivity: the bytes are read in the order b, g, r, a
canvasPixelBgr(img, bw, bh, i, j) ==
    LET fill == hexToRgb(img.fill)
        part == coverage(img, bw, bh, i, j)
    IN  [r |-> MathRound(fill.b * part.num, part.den),
         g |-> MathRound(fill.g * part.num, part.den),
         b |-> MathRound(fill.r * part.num, part.den),
         a |-> 255]

\* pixel (i, j) of getImageData after fillRect in '#000000' and drawImage:
\* the image colour over opaque black, weighted by the covered part
canvasPixel(img, bw, bh, i, j) ==
    LET fill == hexToRgb(img.fill)
        part == coverage(img, bw, bh, i, j)
    IN  [r |-> MathRound(fill.r * part.num, part.den),
         g |-> MathRound(fill.g * part.num, part.den),
         b |-> MathRound(fill.b * part.num, part.den),
         a |-> 255]

\* the body of the loop over pixels for pixelIndex = i / 4
quantizePixel(pixel) ==
    IF pixel.a < 128 THEN 0 ELSE findClosestColorIndex(pixel.r, pixel.g, pixel.b)

\* the array processImageToBoard resolves with
processImageToBoard(img, bw, bh) ==
    [k \in 1..(bw * bh) |->
        ToUint32(quantizePixel(canvasPixel(img, bw, bh, (k - 1) % bw, (k - 1) \div bw)))]

(***************************************************************************)
(* Uploads: handleImageUpload awaits processImageToBoard.  The decode ends *)
(* later in img.onload or img.onerror; the promise reactions that follow   *)
(* (resolve or reject, then the rest of handleImageUpload) run before any  *)
(* other event or frame is served, so each ending is one step, counted     *)
(* like a call.                                                            *)
(***************************************************************************)
\* an upload in progress or ended, and the array it resolved with
Upload(img, status, data) == [img |-> img, status |-> status, data |-> data]

\* onImageUpload(file): the decode of the file starts
handleImageUpload(img) ==
    /\ pc = "idle"
    /\ Len(trace) < MaxCalls
    /\ uploads' = Append(uploads, Upload(img, "decoding", <<>>))
    /\ lastCall' = Call("handleImageUpload", Len(uploads) + 1, 0, 0, <<>>, FALSE)
    /\ trace' = Append(trace, "handleImageUpload")
    /\ UNCHANGED <<heap, boardStateRef, returned, frameVars, resolverVars, pc, selectedColor,
                   quantizerVars, hostVars, mutations>>

\* variant used to test sensitivity: the upload only fills the empty cells
imgOnloadKeepsPegs(u) ==
    /\ pc = "idle"
    /\ Len(trace) < MaxCalls
    /\ u \in DOMAIN uploads
    /\ uploads[u].status = "decoding"
    /\ uploads[u].img.decodes
    /\ uploads' = [uploads EXCEPT ![u] =
                      Upload(@.img, "resolved",
                             processImageToBoard(@.img, BOARD_WIDTH, BOARD_HEIGHT))]
    /\ heap' = [heap EXCEPT ![boardStateRef] =
                   [i \in 1..Len(@) |-> IF @[i] = 0 THEN uploads'[u].data[i] ELSE @[i]]]
    /\ mutations' = Append(mutations, Call("setBoard", u, 0, 0, uploads'[u].data, FALSE))
    /\ lastCall' = Call("imgOnload", u, 0, 0, uploads'[u].data, FALSE)
    /\ trace' = Append(trace, "imgOnload")
    /\ UNCHANGED <<boardStateRef, returned, frameVars, resolverVars, pc, selectedColor,
                   quantizerVars, hostVars>>

\* img.onload with a 2d context: the promise resolves with the array, kept
\* as uploads'[u].data, and handleImageUpload goes on to setBoard(data)
imgOnload(u) ==
    /\ pc = "idle"
    /\ Len(trace) < MaxCalls
    /\ u \in DOMAIN uploads
    /\ uploads[u].status = "decoding"
    /\ uploads[u].img.decodes
    /\ uploads' = [uploads EXCEPT ![u] =
                      Upload(@.img, "resolved",
                             processImageToBoard(@.img, BOARD_WIDTH, BOARD_HEIGHT))]
    /\ heap' = IF setBoardAccepts(uploads'[u].data)
               THEN [heap EXCEPT ![boardStateRef] = TypedArraySet(@, uploads'[u].data)]
               ELSE heap
    /\ mutations' = Append(mutations, Call("setBoard", u, 0, 0, uploads'[u].data, FALSE))
    /\ lastCall' = Call("imgOnload", u, 0, 0, uploads'[u].data, FALSE)
    /\ trace' = Append(trace, "imgOnload")
    /\ UNCHANGED <<boardStateRef, returned, frameVars, resolverVars, pc, selectedColor,
                   quantizerVars, hostVars>>

\* img.onload without a 2d context: reject('Could not get canvas context'),
\* and the catch of handleImageUpload reports it
imgOnloadNoContext(u) ==
    /\ pc = "idle"
    /\ Len(trace) < MaxCalls
    /\ u \in DOMAIN uploads
    /\ uploads[u].status = "decoding"
    /\ uploads[u].img.decodes
    /\ uploads' = [uploads EXCEPT ![u] = Upload(@.img, "rejected", <<>>)]
    /\ lastCall' = Call("imgOnloadNoContext", u, 0, 0, <<>>, TRUE)
    /\ trace' = Append(trace, "imgOnloadNoContext")
    /\ UNCHANGED <<heap, boardStateRef, returned, frameVars, resolverVars, pc, selectedColor,
                   quantizerVars, hostVars, mutations>>

\* variant used to test sensitivity: a failed upload empties the board
imgOnerrorClears(u) ==
    /\ pc = "idle"
    /\ Len(trace) < MaxCalls
    /\ u \in DOMAIN uploads
    /\ uploads[u].status = "decoding"
    /\ ~uploads[u].img.decodes
    /\ uploads' = [uploads EXCEPT ![u] = Upload(@.img, "rejected", <<>>)]
    /\ heap' = [heap EXCEPT ![boardStateRef] = TypedArrayFill(@, 0)]
    /\ lastCall' = Call("imgOnerror", u, 0, 0, <<>>, TRUE)
    /\ trace' = Append(trace, "imgOnerror")
    /\ UNCHANGED <<boardStateRef, returned, frameVars, resolverVars, pc, selectedColor,
                   quantizerVars, hostVars, mutations>>

\* img.onerror: reject('Failed to load image'), and the catch of
\* handleImageUpload reports it
imgOnerror(u) ==
    /\ pc = "idle"
    /\ Len(trace) < MaxCalls
    /\ u \in DOMAIN uploads
    /\ uploads[u].status = "decoding"
    /\ ~uploads[u].img.decodes
    /\ uploads' = [uploads EXCEPT ![u] = Upload(@.img, "rejected", <<>>)]
    /\ lastCall' = Call("imgOnerror", u, 0, 0, <<>>, TRUE)
    /\ trace' = Append(trace, "imgOnerror")
    /\ UNCHANGED <<heap, boardStateRef, returned, frameVars, resolverVars, pc, selectedColor,
                   quantizerVars, hostVars, mutations>>

\* the files uploaded while the board is in use: an image of the board's
\* proportions in Orange, a wide white one, and a file that does not decode
UploadInputs ==
    { Image(BOARD_WIDTH, BOARD_HEIGHT, COLORS[2].hex, TRUE),
      Image(2, 1, COLORS[7].hex, TRUE),
      Image(1, 1, Black, FALSE) }

\* the uploads that may end
UploadIds == 1..MaxCalls

InitComponent ==
    /\ InitStore
    /\ InitApp
    /\ pointer = [px |-> 0, py |-> 0]
    /\ closestPeg = NoPeg
    /\ pc = "idle"

NextComponent ==
    \/ \E colorId \in SelectInputs : selectColor(colorId)
    \/ \E p \in PointerInputs : handleCanvasClick(p.px, p.py)
    \/ \E touches \in TouchInputs : handleTouchStart(touches)
    \/ handleClear
    \/ \E img \in UploadInputs : handleImageUpload(img)
    \/ \E u \in UploadIds : imgOnload(u)
    \/ \E u \in UploadIds : imgOnloadNoContext(u)
    \/ \E u \in UploadIds : imgOnerror(u)

ComponentSpec == InitComponent /\ [][NextComponent]_vars

\* images of one colour in every size up to twice the board's, in every
\* palette colour, in black and in a grey that is no palette colour
Grey == <<8, 0, 8, 0, 8, 0>>
UniformFills == {COLORS[i].hex : i \in 1..Len(COLORS)} \cup {Black, Grey}
UniformImages ==
    { Image(w, h, fill, TRUE) :
        w \in 1..(2 * BOARD_WIDTH), h \in 1..(2 * BOARD_HEIGHT), fill \in UniformFills }

NextImage ==
    \/ \E img \in UniformImages : uploads = <<>> /\ handleImageUpload(img)
    \/ imgOnload(1)

ImageSpec == InitComponent /\ [][NextImage]_vars

(***************************************************************************)
(* A frame of the GPU backend: render of useLiteBriteGPU, and the queue    *)
(* that executes what render submitted.                                    *)
(***************************************************************************)
\* getColor of litebrite.wgsl, the channels r, g, b, a in tenths
getColor(colorIndex) ==
    CASE colorIndex = 1 -> <<10, 0, 0, 10>>
      [] colorIndex = 2 -> <<10, 5, 1, 10>>
      [] colorIndex = 3 -> <<10, 10, 0, 10>>
      [] colorIndex = 4 -> <<2, 10, 2, 10>>
      [] colorIndex = 5 -> <<0, 10, 10, 10>>
      [] colorIndex = 6 -> <<2, 8, 10, 10>>
      [] colorIndex = 7 -> <<2, 5, 10, 10>>
      [] colorIndex = 8 -> <<6, 2, 10, 10>>
      [] colorIndex = 9 -> <<10, 2, 8, 10>>
      [] colorIndex = 10 -> <<10, 10, 10, 10>>
      [] OTHER -> <<0, 0, 0, 0>>

\* the colour the compute pass takes for each peg of the grid it was given:
\* let colorIndex = boardState[pegIndex]; if (colorIndex > 0u) getColor(colorIndex)
shadePegs(b) == [i \in 1..Len(b) |-> IF b[i] > 0 THEN getColor(b[i]) ELSE getColor(0)]

\* the address of the array a frame constructs: one no live array has
FrameAddress == CHOOSE a \in 3..(3 + MaxCalls) : a \notin DOMAIN heap

\* a submitted frame: the array written to boardStateBuffer, and the grid as
\* it was when the frame started
Frame(boardData, atStart) == [boardData |-> boardData, atStart |-> atStart]

\* the frames run while the GPU component is mounted and isReady is true
gpuFrameRuns == mounted /\ useWebGPU = "true" /\ isReady /\ deviceRef # 0

\* variant used to test sensitivity: the frame hands the live grid to the queue
gpuRenderShared ==
    /\ pc = "idle"
    /\ Len(trace) < MaxCalls
    /\ gpuFrameRuns
    /\ queue' = Append(queue, Frame(boardStateRef, board))
    /\ animationFrameRef' = animationFrameRef + 1
    /\ lastCall' = Call("gpuRender", 0, 0, 0, <<>>, FALSE)
    /\ trace' = Append(trace, "gpuRender")
    /\ UNCHANGED <<heap, boardStateRef, returned, painted, pointer, closestPeg, pc, selectedColor,
                   quantizerVars, uploadVars, lifecycleVars, presented, loopVars,
                   shaderVars>>

\* one run of render: boardData = new Uint32Array(boardStateRef.current),
\* writeBuffer and submit, then requestAnimationFrame(render)
gpuRender ==
    /\ pc = "idle"
    /\ Len(trace) < MaxCalls
    /\ gpuFrameRuns
    /\ heap' = [a \in DOMAIN heap \cup {FrameAddress} |->
                    IF a = FrameAddress THEN Uint32ArrayFrom(board) ELSE heap[a]]
    /\ queue' = Append(queue, Frame(FrameAddress, board))
    /\ animationFrameRef' = animationFrameRef + 1
    /\ lastCall' = Call("gpuRender", 0, 0, 0, <<>>, FALSE)
    /\ trace' = Append(trace, "gpuRender")
    /\ UNCHANGED <<boardStateRef, returned, painted, pointer, closestPeg, pc, selectedColor,
                   quantizerVars, uploadVars, lifecycleVars, presented, loopVars,
                   shaderVars>>

\* the queue executes the oldest submitted frame: the compute pass reads the
\* grid that frame wrote and the result is shown
gpuPresent ==
    /\ queue # <<>>
    /\ presented' = shadePegs(heap[Head(queue).boardData])
    /\ queue' = Tail(queue)
    /\ lastCall' = Call("gpuPresent", 0, 0, 0, <<>>, FALSE)
    /\ UNCHANGED <<heap, boardStateRef, returned, trace, frameVars, pointer, closestPeg, pc,
                   selectedColor, quantizerVars, uploadVars, lifecycleVars, loopVars,
                   shaderVars>>

\* a frame of the fallback: it runs while LiteBriteCanvas2D is mounted
canvasFrame(canDraw) ==
    /\ mounted
    /\ useWebGPU = "false"
    /\ render(canDraw)

\* either backend ready to draw, the component's handlers editing the grid
InitFrames ==
    /\ InitStore
    /\ InitInteraction
    /\ InitQuantizerIdle
    /\ InitUploads
    /\ pointer = [px |-> 0, py |-> 0]
    /\ closestPeg = NoPeg
    /\ pc = "idle"
    /\ navigatorGpu \in BOOLEAN
    /\ useWebGPU = IF navigatorGpu THEN "true" ELSE "false"
    /\ checkPc = "done"
    /\ initPc = IF navigatorGpu THEN "done" ELSE "start"
    /\ isSupported = TRUE
    /\ isReady = navigatorGpu
    /\ error = "null"
    /\ devices = IF navigatorGpu THEN <<[destroyed |-> FALSE, lost |-> FALSE]>> ELSE <<>>
    /\ deviceRef = Len(devices)
    /\ mounted = TRUE
    /\ handles = IF navigatorGpu THEN AssignedAfter(Len(HandleOrder)) ELSE {}
    /\ queue = <<>>
    /\ presented = <<>>
    /\ InitIdle

NextFrames ==
    \/ \E colorId \in SelectInputs : selectColor(colorId)
    \/ \E p \in PointerInputs : handleCanvasClick(p.px, p.py)
    \/ handleClear
    \/ \E canDraw \in BOOLEAN : canvasFrame(canDraw)
    \/ gpuRender
    \/ gpuPresent

FrameSpec == InitFrames /\ [][NextFrames]_vars

(***************************************************************************)
(* The render loop: the render effect of useLiteBriteGPU and of            *)
(* useLiteBriteCanvas.  The effect calls render once; render asks for the  *)
(* next animation frame, and the browser runs whatever request is pending. *)
(***************************************************************************)
\* the refs render of useLiteBriteGPU tests besides deviceRef
FrameHandles == AssignedAfter(Len(HandleOrder)) \ {"sampler"}

\* if (!device || !context || ... || !blitBindGroup) return; does not return
gpuHandlesReady == deviceRef # 0 /\ FrameHandles \subseteq handles

\* requestAnimationFrame(render) called by the render of effect e: the
\* requests pending afterwards
requestAnimationFrame(e, pending) ==
    pending \cup {[id |-> animationFrameRef + 1, effect |-> e]}

\* variant used to test sensitivity: a fallback frame that cannot draw does
\* not ask for the next frame
renderRunGivesUp(e, pending, canDraw) ==
    IF useWebGPU = "true"
    THEN IF gpuHandlesReady
         THEN /\ heap' = [a \in DOMAIN heap \cup {FrameAddress} |->
                              IF a = FrameAddress THEN Uint32ArrayFrom(board) ELSE heap[a]]
              /\ queue' = Append(queue, Frame(FrameAddress, board))
              /\ animationFrameRef' = animationFrameRef + 1
              /\ scheduled' = requestAnimationFrame(e, pending)
              /\ UNCHANGED painted
         ELSE /\ scheduled' = pending
              /\ UNCHANGED <<heap, queue, animationFrameRef, painted>>
    ELSE IF canDraw
         THEN /\ painted' = drawPegs(board)
              /\ animationFrameRef' = animationFrameRef + 1
              /\ scheduled' = requestAnimationFrame(e, pending)
              /\ UNCHANGED <<heap, queue>>
         ELSE /\ scheduled' = pending
              /\ UNCHANGED <<heap, queue, animationFrameRef, painted>>

\* one run of render started by effect e while the requests in pending are
\* waiting.  GPU: without one of its refs it returns, otherwise it submits a
\* frame and asks for the next one.  Fallback: without a canvas or a context
\* it only asks for the next frame, otherwise it draws first.
renderRun(e, pending, canDraw) ==
    IF useWebGPU = "true"
    THEN IF gpuHandlesReady
         THEN /\ heap' = [a \in DOMAIN heap \cup {FrameAddress} |->
                              IF a = FrameAddress THEN Uint32ArrayFrom(board) ELSE heap[a]]
              /\ queue' = Append(queue, Frame(FrameAddress, board))
              /\ animationFrameRef' = animationFrameRef + 1
              /\ scheduled' = requestAnimationFrame(e, pending)
              /\ UNCHANGED painted
         ELSE /\ scheduled' = pending
              /\ UNCHANGED <<heap, queue, animationFrameRef, painted>>
    ELSE /\ painted' = IF canDraw THEN drawPegs(board) ELSE painted
         /\ animationFrameRef' = animationFrameRef + 1
         /\ scheduled' = requestAnimationFrame(e, pending)
         /\ UNCHANGED <<heap, queue>>

\* the render effect may run its body: the fallback on mount, the GPU hook
\* once isReady is true (if (!isReady) return)
renderEffectRuns == mounted /\ (useWebGPU = "false" \/ (useWebGPU = "true" /\ isReady))

\* the number the next run of the render effect gets
NextEffect == Cardinality(cleanedUp) + 1

\* the render effect runs for the first time, or again after isReady turned
\* true: render()
startRenderEffect(canDraw) ==
    /\ pc = "idle"
    /\ Len(trace) < MaxCalls
    /\ renderEffectRuns
    /\ renderEffect = 0
    /\ renderEffect' = NextEffect
    /\ renderRun(NextEffect, scheduled, canDraw)
    /\ lastCall' = Call("startRenderEffect", NextEffect, 0, 0, <<>>, FALSE)
    /\ trace' = Append(trace, "startRenderEffect")
    /\ UNCHANGED <<boardStateRef, returned, resolverVars, pc, selectedColor, quantizerVars,
                   uploadVars, lifecycleVars, presented, cleanedUp, shaderVars>>

\* the browser delivers a pending animation frame request: render runs
animationFrame(s, canDraw) ==
    /\ pc = "idle"
    /\ Len(trace) < MaxCalls
    /\ s \in scheduled
    /\ renderRun(s.effect, scheduled \ {s}, canDraw)
    /\ lastCall' = Call("animationFrame", s.effect, 0, 0, <<>>, FALSE)
    /\ trace' = Append(trace, "animationFrame")
    /\ UNCHANGED <<boardStateRef, returned, resolverVars, pc, selectedColor, quantizerVars,
                   uploadVars, lifecycleVars, presented, renderEffect, cleanedUp, shaderVars>>

\* variant used to test sensitivity: a cancel that removes nothing
cancelNothing(id) == scheduled

\* cancelAnimationFrame(id): the request with that id is no longer pending
cancelAnimationFrame(id) == {s \in scheduled : s.id # id}

\* the cleanup of the render effect: if (animationFrameRef.current !== null)
\* cancelAnimationFrame(animationFrameRef.current)
pendingAfterCleanup ==
    IF animationFrameRef # 0 THEN cancelAnimationFrame(animationFrameRef) ELSE scheduled

\* a dependency of the render effect changed (glowIntensity, ...): its
\* cleanup runs and the effect runs again, in one commit
changeDependency(canDraw) ==
    /\ pc = "idle"
    /\ Len(trace) < MaxCalls
    /\ renderEffectRuns
    /\ renderEffect # 0
    /\ cleanedUp' = cleanedUp \cup {renderEffect}
    /\ renderEffect' = renderEffect + 1
    /\ renderRun(renderEffect + 1, pendingAfterCleanup, canDraw)
    /\ lastCall' = Call("changeDependency", renderEffect + 1, 0, 0, <<>>, FALSE)
    /\ trace' = Append(trace, "changeDependency")
    /\ UNCHANGED <<boardStateRef, returned, resolverVars, pc, selectedColor, quantizerVars,
                   uploadVars, lifecycleVars, presented, shaderVars>>

(***************************************************************************)
(* Initialisation and teardown of the GPU backend: the first effect of     *)
(* useLiteBriteGPU.  initWebGPU runs up to its first await inside the      *)
(* effect; each await resumes in a later step, whatever happened to the    *)
(* view in between.                                                        *)
(***************************************************************************)
\* the messages setError is called with
NotSupportedMessage == "WebGPU is not supported in this browser"
NoAdapterMessage == "Failed to get WebGPU adapter"
NoContextMessage == "Failed to get WebGPU context"
InitializationFailedMessage == "Initialization failed"
DeviceLostMessage == "GPU device lost"

\* a device handed out by requestDevice
Device(destroyed, lost) == [destroyed |-> destroyed, lost |-> lost]

\* how requestAdapter settles: with an adapter, with null, or rejected
AdapterOutcomes == {"Resolved", "Null", "Rejected"}

\* how requestDevice settles: with a device, or rejected
DeviceOutcomes == {"Resolved", "Rejected"}

\* what follows a device: canvas.getContext('webgpu') returns a context and
\* the pipelines are built, it returns null, or building the pipelines throws
ContextOutcomes == {"context", "null", "throws"}

\* variant used to test sensitivity: without navigator.gpu only
\* setIsSupported(false) is called
initWebGPUSilent ==
    /\ mounted
    /\ useWebGPU = "true"
    /\ initPc = "start"
    /\ IF ~navigatorGpu
       THEN /\ isSupported' = FALSE
            /\ initPc' = "done"
            /\ UNCHANGED error
       ELSE /\ initPc' = "requestAdapter"
            /\ UNCHANGED <<isSupported, error>>
    /\ lastCall' = Call("initWebGPU", 0, 0, 0, <<>>, FALSE)
    /\ UNCHANGED <<boardVars, navigatorGpu, useWebGPU, checkPc, isReady, deviceRef, devices,
                   mounted, handles, restVars>>

\* the effect calls initWebGPU: without navigator.gpu it reports and
\* returns, otherwise it awaits requestAdapter
initWebGPU ==
    /\ mounted
    /\ useWebGPU = "true"
    /\ initPc = "start"
    /\ IF ~navigatorGpu
       THEN /\ isSupported' = FALSE
            /\ error' = NotSupportedMessage
            /\ initPc' = "done"
       ELSE /\ initPc' = "requestAdapter"
            /\ UNCHANGED <<isSupported, error>>
    /\ lastCall' = Call("initWebGPU", 0, 0, 0, <<>>, FALSE)
    /\ UNCHANGED <<boardVars, navigatorGpu, useWebGPU, checkPc, isReady, deviceRef, devices,
                   mounted, handles, restVars>>

\* await navigator.gpu.requestAdapter() settles: null is reported and ends
\* the initialisation, a rejection reaches the catch of the effect
requestAdapterSettles(outcome) ==
    /\ initPc = "requestAdapter"
    /\ CASE outcome = "Resolved" ->
                /\ initPc' = "requestDevice"
                /\ UNCHANGED <<isSupported, error>>
         [] outcome = "Null" ->
                /\ isSupported' = FALSE
                /\ error' = NoAdapterMessage
                /\ initPc' = "done"
         [] outcome = "Rejected" ->
                /\ error' = InitializationFailedMessage
                /\ initPc' = "done"
                /\ UNCHANGED isSupported
    /\ lastCall' = Call("requestAdapter" \o outcome, 0, 0, 0, <<>>, outcome = "Rejected")
    /\ UNCHANGED <<boardVars, navigatorGpu, useWebGPU, checkPc, isReady, deviceRef, devices,
                   mounted, handles, restVars>>

\* variant used to test sensitivity: a missing context ends the
\* initialisation without a message
afterDeviceSilent(ctx) ==
    CASE ~mounted -> UNCHANGED <<isReady, error, handles>>
      [] mounted /\ ctx = "null" -> UNCHANGED <<isReady, error, handles>>
      [] mounted /\ ctx = "throws" ->
            /\ \E k \in 1..(Len(HandleOrder) - 1) : handles' = handles \cup AssignedAfter(k)
            /\ error' = InitializationFailedMessage
            /\ UNCHANGED isReady
      [] mounted /\ ctx = "context" ->
            /\ handles' = handles \cup AssignedAfter(Len(HandleOrder))
            /\ isReady' = TRUE
            /\ UNCHANGED error

\* variant used to test sensitivity: setIsReady(true) is called before the
\* blit bind group is created
afterDeviceEarlyReady(ctx) ==
    CASE ~mounted -> UNCHANGED <<isReady, error, handles>>
      [] mounted /\ ctx = "null" ->
            /\ error' = NoContextMessage
            /\ UNCHANGED <<isReady, handles>>
      [] mounted /\ ctx = "throws" ->
            /\ \E k \in 1..(Len(HandleOrder) - 1) :
                    /\ handles' = handles \cup AssignedAfter(k)
                    /\ isReady' = (k = Len(HandleOrder) - 1)
            /\ error' = InitializationFailedMessage
      [] mounted /\ ctx = "context" ->
            /\ handles' = handles \cup AssignedAfter(Len(HandleOrder))
            /\ isReady' = TRUE
            /\ UNCHANGED error

\* the state the rest of initWebGPU leaves once it holds a device: without a
\* canvas (the view is gone) it returns, without a context it reports, and
\* anything thrown while the pipelines are built reaches the catch
afterDevice(ctx) ==
    CASE ~mounted -> UNCHANGED <<isReady, error, handles>>
      [] mounted /\ ctx = "null" ->
            /\ error' = NoContextMessage
            /\ UNCHANGED <<isReady, handles>>
      [] mounted /\ ctx = "throws" ->
            /\ \E k \in 1..(Len(HandleOrder) - 1) : handles' = handles \cup AssignedAfter(k)
            /\ error' = InitializationFailedMessage
            /\ UNCHANGED isReady
      [] mounted /\ ctx = "context" ->
            /\ handles' = handles \cup AssignedAfter(Len(HandleOrder))
            /\ isReady' = TRUE
            /\ UNCHANGED error

\* await adapter.requestDevice() settles: the device is stored in deviceRef
\* and the rest of initWebGPU runs without another await
requestDeviceSettles(outcome, ctx) ==
    /\ initPc = "requestDevice"
    /\ initPc' = "done"
    /\ IF outcome = "Resolved"
       THEN /\ devices' = Append(devices, Device(FALSE, FALSE))
            /\ deviceRef' = Len(devices) + 1
            /\ afterDevice(ctx)
       ELSE /\ error' = InitializationFailedMessage
            /\ UNCHANGED <<devices, deviceRef, isReady, handles>>
    /\ lastCall' = Call("requestDevice" \o outcome, 0, 0, 0, <<>>, outcome = "Rejected")
    /\ UNCHANGED <<boardVars, navigatorGpu, useWebGPU, checkPc, isSupported, mounted,
                   restVars>>

\* device.lost resolves, on its own or after destroy(), and its reaction
\* reports the loss
deviceLost(d) ==
    /\ d \in DOMAIN devices
    /\ ~devices[d].lost
    /\ devices' = [devices EXCEPT ![d].lost = TRUE]
    /\ error' = DeviceLostMessage
    /\ lastCall' = Call("deviceLost", d, 0, 0, <<>>, FALSE)
    /\ UNCHANGED <<boardVars, navigatorGpu, useWebGPU, checkPc, initPc, isSupported, isReady,
                   deviceRef, mounted, handles, restVars>>

\* variant used to test sensitivity: a teardown that destroys every device
\* handed out so far
cleanupAllDevices ==
    /\ mounted
    /\ useWebGPU = "true" => initPc # "start"
    /\ mounted' = FALSE
    /\ devices' = [d \in DOMAIN devices |-> [devices[d] EXCEPT !.destroyed = TRUE]]
    /\ scheduled' = pendingAfterCleanup
    /\ cleanedUp' = IF renderEffect # 0 THEN cleanedUp \cup {renderEffect} ELSE cleanedUp
    /\ renderEffect' = 0
    /\ lastCall' = Call("cleanup", 0, 0, 0, <<>>, FALSE)
    /\ UNCHANGED <<boardVars, navigatorGpu, useWebGPU, checkPc, initPc, hookStateVars,
                   deviceRef, handles, gpuFrameVars, shaderVars>>

\* the view is torn down and the cleanups of both effects run: the pending
\* animation frame is cancelled and deviceRef.current?.destroy() is called
cleanup ==
    /\ mounted
    /\ useWebGPU = "true" => initPc # "start"
    /\ mounted' = FALSE
    /\ devices' = IF deviceRef # 0
                  THEN [devices EXCEPT ![deviceRef].destroyed = TRUE]
                  ELSE devices
    /\ scheduled' = pendingAfterCleanup
    /\ cleanedUp' = IF renderEffect # 0 THEN cleanedUp \cup {renderEffect} ELSE cleanedUp
    /\ renderEffect' = 0
    /\ lastCall' = Call("cleanup", 0, 0, 0, <<>>, FALSE)
    /\ UNCHANGED <<boardVars, navigatorGpu, useWebGPU, checkPc, initPc, hookStateVars,
                   deviceRef, handles, gpuFrameVars, shaderVars>>

\* the hook mounted by a component, in a browser with or without navigator.gpu
InitHook ==
    /\ InitStore
    /\ InitInteraction
    /\ InitQuantizerIdle
    /\ InitUploads
    /\ pointer = [px |-> 0, py |-> 0]
    /\ closestPeg = NoPeg
    /\ pc = "idle"
    /\ navigatorGpu \in BOOLEAN
    /\ useWebGPU = "true"
    /\ checkPc = "done"
    /\ initPc = "start"
    /\ isSupported = TRUE
    /\ isReady = FALSE
    /\ error = "null"
    /\ deviceRef = 0
    /\ devices = <<>>
    /\ mounted = TRUE
    /\ handles = {}
    /\ queue = <<>>
    /\ presented = <<>>
    /\ InitIdle

NextHook ==
    \/ initWebGPU
    \/ \E outcome \in AdapterOutcomes : requestAdapterSettles(outcome)
    \/ \E outcome \in DeviceOutcomes, ctx \in ContextOutcomes : requestDeviceSettles(outcome, ctx)
    \/ \E d \in DOMAIN devices : deviceLost(d)
    \/ cleanup
    \/ gpuRender
    \/ gpuPresent
    \/ \E p \in PointerInputs : mounted /\ handleCanvasClick(p.px, p.py)

HookSpec == InitHook /\ [][NextHook]_vars

\* a step of initWebGPU: the effect calls it, or a promise it awaits settles
initStep ==
    \/ initWebGPU
    \/ \E outcome \in AdapterOutcomes : requestAdapterSettles(outcome)
    \/ \E outcome \in DeviceOutcomes, ctx \in ContextOutcomes : requestDeviceSettles(outcome, ctx)

\* the effect of a mounted hook runs, and requestAdapter and requestDevice
\* settle one way or the other
HookFairSpec == HookSpec /\ WF_vars(initStep)

\* either hook mounted by its component: the GPU hook initialises and then
\* starts its loop, the fallback starts its loop at once
InitLoop ==
    /\ InitStore
    /\ InitInteraction
    /\ InitQuantizerIdle
    /\ InitUploads
    /\ pointer = [px |-> 0, py |-> 0]
    /\ closestPeg = NoPeg
    /\ pc = "idle"
    /\ navigatorGpu \in BOOLEAN
    /\ useWebGPU \in {"true", "false"}
    /\ checkPc = "done"
    /\ initPc = "start"
    /\ isSupported = TRUE
    /\ isReady = FALSE
    /\ error = "null"
    /\ deviceRef = 0
    /\ devices = <<>>
    /\ mounted = TRUE
    /\ handles = {}
    /\ queue = <<>>
    /\ presented = <<>>
    /\ InitIdle

NextLoop ==
    \/ initWebGPU
    \/ \E outcome \in AdapterOutcomes : requestAdapterSettles(outcome)
    \/ \E outcome \in DeviceOutcomes, ctx \in ContextOutcomes : requestDeviceSettles(outcome, ctx)
    \/ \E canDraw \in BOOLEAN : startRenderEffect(canDraw)
    \/ \E s \in scheduled, canDraw \in BOOLEAN : animationFrame(s, canDraw)
    \/ \E canDraw \in BOOLEAN : changeDependency(canDraw)
    \/ cleanup
    \/ gpuPresent
    \/ \E d \in DOMAIN devices : deviceLost(d)
    \/ \E p \in PointerInputs : mounted /\ handleCanvasClick(p.px, p.py)

LoopSpec == InitLoop /\ [][NextLoop]_vars

(***************************************************************************)
(* The choice of the backend: LiteBrite of the application, which probes   *)
(* WebGPU once and then mounts LiteBriteWebGPU or LiteBriteCanvas2D.       *)
(***************************************************************************)
\* the effect calls checkWebGPU: without navigator.gpu it chooses the
\* fallback, otherwise it awaits requestAdapter
checkWebGPU ==
    /\ mounted
    /\ checkPc = "start"
    /\ IF ~navigatorGpu
       THEN useWebGPU' = "false" /\ checkPc' = "done"
       ELSE checkPc' = "requestAdapter" /\ UNCHANGED useWebGPU
    /\ lastCall' = Call("checkWebGPU", 0, 0, 0, <<>>, FALSE)
    /\ UNCHANGED <<boardVars, navigatorGpu, initPc, hookStateVars, deviceRef, devices, mounted,
                   handles, restVars>>

\* await navigator.gpu.requestAdapter() of checkWebGPU settles: an adapter
\* chooses the GPU component, null or a rejection the fallback; a view that
\* is gone takes no state
checkAdapterSettles(outcome) ==
    /\ checkPc = "requestAdapter"
    /\ checkPc' = "done"
    /\ useWebGPU' = IF ~mounted THEN useWebGPU
                    ELSE IF outcome = "Resolved" THEN "true" ELSE "false"
    /\ lastCall' = Call("checkAdapter" \o outcome, 0, 0, 0, <<>>, FALSE)
    /\ UNCHANGED <<boardVars, navigatorGpu, initPc, hookStateVars, deviceRef, devices, mounted,
                   handles, restVars>>

\* LiteBrite mounted in a browser with or without navigator.gpu
InitLiteBrite ==
    /\ InitStore
    /\ InitInteraction
    /\ InitQuantizerIdle
    /\ InitUploads
    /\ pointer = [px |-> 0, py |-> 0]
    /\ closestPeg = NoPeg
    /\ pc = "idle"
    /\ navigatorGpu \in BOOLEAN
    /\ useWebGPU = "null"
    /\ checkPc = "start"
    /\ initPc = "start"
    /\ isSupported = TRUE
    /\ isReady = FALSE
    /\ error = "null"
    /\ deviceRef = 0
    /\ devices = <<>>
    /\ mounted = TRUE
    /\ handles = {}
    /\ queue = <<>>
    /\ presented = <<>>
    /\ InitIdle

\* the steps the browser takes on its own: promises settle, effects and
\* animation frames run
browserStep ==
    \/ checkWebGPU
    \/ \E outcome \in AdapterOutcomes : checkAdapterSettles(outcome)
    \/ initWebGPU
    \/ \E outcome \in AdapterOutcomes : requestAdapterSettles(outcome)
    \/ \E outcome \in DeviceOutcomes, ctx \in ContextOutcomes : requestDeviceSettles(outcome, ctx)
    \/ canvasFrame(TRUE)
    \/ gpuRender
    \/ gpuPresent

NextLiteBrite ==
    \/ browserStep
    \/ \E d \in DOMAIN devices : deviceLost(d)
    \/ cleanup

\* a pending promise settles, a scheduled effect runs and a requested
\* animation frame is delivered; a device need not be lost and the view need
\* not be torn down
LiteBriteSpec == InitLiteBrite /\ [][NextLiteBrite]_vars /\ WF_vars(browserStep)

(***************************************************************************)
(* The compute shader: main of shaders/litebrite.wgsl, one invocation per  *)
(* output pixel.  Pixel coordinates and peg centres are whole numbers, so  *)
(* a distance compares with a radius as their squares do.  The light a peg *)
(* adds to a pixel is kept as the list of the terms added, in the order of *)
(* the loop: which peg, which colour index, at which squared distance,     *)
(* and through which branch (the solid peg, its glow, its ambient light).  *)
(* The text of the shader lacks the line that opens the branch of the      *)
(* solid peg; the branch that the following "else" closes is taken when    *)
(* distToNeighbor <= pegRadius, as in the earlier shader, where only the   *)
(* pixel's own cell can satisfy it.                                        *)
(***************************************************************************)
pegSpacing == 32
pegRadius == 12
glowRadius == 24
ambientRadius == 45

\* let boardWidth = params.width / pegSpacing, params.width being the width
\* of the canvas
shaderBoardWidth == canvasWidth \div pegSpacing
shaderBoardHeight == canvasHeight \div pegSpacing

\* let currentRow = y / pegSpacing
currentRow(y) == y \div pegSpacing

\* let rowShift = f32(pegSpacing) * 0.5
rowShift == pegSpacing \div 2

\* select(0.0, rowShift, isOddRow)
currentShift(y) == IF currentRow(y) % 2 # 0 THEN rowShift ELSE 0

\* i32(floor((f32(x) - currentShift) / f32(pegSpacing)))
currentPegX(x, y) == MathFloor(x - currentShift(y), pegSpacing)

\* the PHYSICAL center of a neighbor peg, staggered if the neighbor's row is odd
neighborCenterX(neighborPegX, neighborPegY) ==
    neighborPegX * pegSpacing + pegSpacing \div 2
        + (IF neighborPegY % 2 # 0 THEN rowShift ELSE 0)
neighborCenterY(neighborPegY) == neighborPegY * pegSpacing + pegSpacing \div 2

\* distToNeighbor, squared
distToNeighborSq(x, y, neighborPegX, neighborPegY) ==
    (x - neighborCenterX(neighborPegX, neighborPegY))
            * (x - neighborCenterX(neighborPegX, neighborPegY))
        + (y - neighborCenterY(neighborPegY)) * (y - neighborCenterY(neighborPegY))

\* variant used to test sensitivity: ambient light is added at any distance
lightTermsUnbounded(dSq) ==
    IF dSq <= pegRadius * pegRadius
    THEN {"solid"}
    ELSE (IF dSq <= glowRadius * glowRadius THEN {"glow"} ELSE {}) \cup {"ambient"}

\* the branches that add to accumulatedLight for a peg at that distance
lightTerms(dSq) ==
    IF dSq <= pegRadius * pegRadius
    THEN {"solid"}
    ELSE (IF dSq <= glowRadius * glowRadius THEN {"glow"} ELSE {})
            \cup (IF dSq <= ambientRadius * ambientRadius THEN {"ambient"} ELSE {})

\* the body of the loop for one neighbor: what it adds to accumulatedLight
neighborLight(x, y, b, neighborPegX, neighborPegY) ==
    IF /\ neighborPegX >= 0
       /\ neighborPegX < shaderBoardWidth
       /\ neighborPegY >= 0
       /\ neighborPegY < shaderBoardHeight
    THEN LET pegIndex == neighborPegY * shaderBoardWidth + neighborPegX
             colorIndex == b[pegIndex + 1]
             dSq == distToNeighborSq(x, y, neighborPegX, neighborPegY)
         IN  IF colorIndex > 0 /\ lightTerms(dSq) # {}
             THEN <<[pegIndex |-> pegIndex, pegColor |-> getColor(colorIndex),
                     distSq |-> dSq, terms |-> lightTerms(dSq)]>>
             ELSE <<>>
    ELSE <<>>

\* for (var i = -1; i <= 1; i++) for (var j = -1; j <= 1; j++), from the
\* n-th of the nine iterations on
RECURSIVE accumulatedLight(_, _, _, _)
accumulatedLight(n, x, y, b) ==
    IF n > 9
    THEN <<>>
    ELSE LET i == ((n - 1) \div 3) - 1
             j == ((n - 1) % 3) - 1
         IN  neighborLight(x, y, b, currentPegX(x, y) + i, currentRow(y) + j)
                 \o accumulatedLight(n + 1, x, y, b)

\* the background of the pixel: the hole of its cell (within 0.8 pegRadius
\* of the centre of the shifted cell), the rim of the hole, or the board;
\* the noise added depends on the pixel alone
finalColor(x, y) ==
    LET cellX == (x - currentShift(y)) % pegSpacing
        cellY == y % pegSpacing
        dSq == (cellX - pegSpacing \div 2) * (cellX - pegSpacing \div 2)
                   + (cellY - pegSpacing \div 2) * (cellY - pegSpacing \div 2)
    IN  IF 100 * dSq <= 64 * pegRadius * pegRadius
        THEN "hole"
        ELSE IF dSq <= pegRadius * pegRadius THEN "rim" ELSE "board"

\* no invocation wrote a pixel
NoPixel == <<>>

\* what main writes for pixel (x, y) of a grid b: nothing outside the
\* canvas, else outputPixels[pixelIndex] from the background and the light
mainWrites(x, y, b) ==
    IF x >= canvasWidth \/ y >= canvasHeight
    THEN NoPixel
    ELSE [pixelIndex |-> y * canvasWidth + x,
          background |-> finalColor(x, y),
          light |-> accumulatedLight(1, x, y, b)]

\* pixels looked at: the edges and the middle of the first cells of a row,
\* and one pixel of each kind of row
PixelXs == {0, 15, 16, 31, 32, 47, 48, canvasWidth - 1}
PixelYs == {0, 16, 31, 32, 48, 63, canvasHeight - 1}

\* grids the shader is run on: no peg, one peg, every cell lit
ShaderBoards ==
    {AllZero, ConstData(boardLength, 1)}
        \cup {[AllZero EXCEPT ![i] = 2] : i \in 1..boardLength}

\* one invocation of main, on the grid the frame uploaded
main(x, y) ==
    /\ pc = "idle"
    /\ globalId' = [x |-> x, y |-> y]
    /\ outputPixel' = mainWrites(x, y, board)
    /\ lastCall' = Call("main", x, y, 0, <<>>, FALSE)
    /\ UNCHANGED <<boardVars, lifecycleVars, gpuFrameVars, loopVars>>

InitShader ==
    /\ boardStateRef = 1
    /\ heap \in {[a \in {1} |-> b] : b \in ShaderBoards}
    /\ returned = 0
    /\ lastCall = NoCall
    /\ trace = <<>>
    /\ animationFrameRef = 0
    /\ painted = <<>>
    /\ InitApp
    /\ pointer = [px |-> 0, py |-> 0]
    /\ closestPeg = NoPeg
    /\ pc = "idle"

NextShader == \E x \in PixelXs, y \in PixelYs : main(x, y)

ShaderSpec == InitShader /\ [][NextShader]_vars

(***************************************************************************)
(* The last statement of main: packColor of the clamped finalColor.  The   *)
(* channels of a colour are thousandths; a 32-bit word is the sequence of  *)
(* its four bytes in the order they have in the output buffer, the least   *)
(* significant byte first.                                                 *)
(***************************************************************************)
\* clamp(finalColor, vec4<f32>(0.0), vec4<f32>(1.0))
clamp(color) ==
    [n \in 1..4 |-> IF color[n] < 0 THEN 0 ELSE IF color[n] > 1000 THEN 1000 ELSE color[n]]

\* u32(c * 255.0): the conversion drops the fraction
channelByte(c) == (c * 255) \div 1000

\* (a << 24u) | (r << 16u) | (g << 8u) | b
packColor(color) ==
    <<channelByte(color[3]), channelByte(color[2]), channelByte(color[1]),
      channelByte(color[4])>>

\* channel values of finalColor.rgb + accumulatedLight: below, inside and
\* above the range, and values that do not scale to a whole byte
ChannelInputs == {-200, 0, 100, 500, 999, 1000, 1300}

\* finalColor = vec4<f32>(finalColor.rgb + accumulatedLight, 1.0);
\* outputPixels[pixelIndex] = packColor(clamp(finalColor, ...))
writeOutput(r, g, b) ==
    /\ pc = "idle"
    /\ outputPixel' = [finalColor |-> <<r, g, b, 1000>>,
                       word |-> packColor(clamp(<<r, g, b, 1000>>))]
    /\ lastCall' = Call("writeOutput", 0, 0, 0, <<>>, FALSE)
    /\ UNCHANGED <<boardVars, lifecycleVars, gpuFrameVars, loopVars, globalId>>

NextPack == \E r \in ChannelInputs, g \in ChannelInputs, b \in ChannelInputs : writeOutput(r, g, b)

PackSpec == Init /\ [][NextPack]_vars

(***************************************************************************)
(* Properties of the component's handlers and of uploads.                  *)
(***************************************************************************)
\* C12: a pointer-down or touch-start with a position resolves it with the
\* Coordinate Resolver and writes the selected colour index (0 for the
\* eraser) to exactly the cell the resolver returned; when the resolver
\* returns the no-cell value no cell changes.
C12_PointerDownWritesResolvedCell ==
    [][(/\ lastCall'.op \in {"handleCanvasClick", "handleTouchStart"}
        /\ Len(lastCall'.data) = 2)
       => /\ closestPeg' = getClosestPeg(lastCall'.data[1], lastCall'.data[2])
          /\ IF closestPeg' = NoPeg
             THEN board' = board
             ELSE /\ ValidCell(closestPeg'.x, closestPeg'.y)
                  /\ board' = [board EXCEPT ![closestPeg'.y * BOARD_WIDTH + closestPeg'.x + 1] =
                                               selectedColor]]_vars

\* with the eraser selected, a pointer-down at the left edge of row 1 has
\* emptied cell (0, 0), the cell the resolver returns there, which an
\* earlier pointer-down had filled with Red
C12_Witness ==
    /\ trace = <<"handleCanvasClick", "selectColor", "handleCanvasClick">>
    /\ selectedColor = 0
    /\ pointer = [px |-> 0, py |-> PEG_SPACING + PEG_SPACING \div 2]
    /\ closestPeg = [x |-> 0, y |-> 0]
    /\ mutations[1] = Call("setPixel", 0, 0, 1, <<>>, FALSE)
    /\ mutations[2] = Call("setPixel", 0, 0, 0, <<>>, FALSE)
    /\ board = AllZero

\* the uploads that have resolved
Resolved == {u \in DOMAIN uploads : uploads[u].status = "resolved"}

\* every cell of d carries index k
AllCells(d, k) == Len(d) = BOARD_WIDTH * BOARD_HEIGHT /\ \A i \in 1..Len(d) : d[i] = k

\* the index a board filled from a uniform image carries in every cell
UniformResult(u) ==
    /\ \E k \in 0..MaxColorId : AllCells(uploads[u].data, k)
    /\ uploads[u].img.fill = Black => AllCells(uploads[u].data, 0)
    /\ \A i \in 1..Len(COLORS) :
          uploads[u].img.fill = COLORS[i].hex => AllCells(uploads[u].data, COLORS[i].id)

\* the image has the proportions of the board
BoardProportions(img) == img.width * BOARD_HEIGHT = img.height * BOARD_WIDTH

\* C14 as stated: an image of any dimensions filled with one colour yields
\* a board with the same index in every cell, 0 for black and k for the
\* hex colour of palette entry k.
C14_UniformImageAnyDimensions == \A u \in Resolved : UniformResult(u)

\* C14 amended: that holds for an image of the board's proportions, and for
\* a black image of any dimensions; the cells an image of other
\* proportions does not cover are filled black and carry 0.
C14_UniformImageOfBoardProportions ==
    \A u \in Resolved :
        (BoardProportions(uploads[u].img) \/ uploads[u].img.fill = Black) => UniformResult(u)

\* an image in Purple twice the size of the board became a board of 8s
C14_Witness ==
    /\ 1 \in Resolved
    /\ uploads[1].img = Image(2 * BOARD_WIDTH, 2 * BOARD_HEIGHT, COLORS[8].hex, TRUE)
    /\ AllCells(uploads[1].data, 8)
    /\ board = uploads[1].data

\* the setBoard calls made for upload u
SetBoardCalls(u) ==
    {i \in 1..Len(mutations) : mutations[i].op = "setBoard" /\ mutations[i].x = u}

\* C15: when an upload fails, by a decode error or for want of a canvas
\* context, processImageToBoard rejects, no cell of the board changes, and
\* setBoard is never called for that upload.
C15_FailedUploadLeavesBoard ==
    [][/\ lastCall'.op \in {"imgOnerror", "imgOnloadNoContext"}
            => /\ uploads'[lastCall'.x].status = "rejected"
               /\ lastCall'.raised
               /\ board' = board
       /\ \A u \in DOMAIN uploads' :
            uploads'[u].status = "rejected" => SetBoardCalls(u)' = {}]_vars

\* a file that does not decode was uploaded to a board holding one peg, and
\* the peg is still the only one
C15_Witness ==
    /\ trace = <<"handleCanvasClick", "handleImageUpload", "imgOnerror">>
    /\ uploads[1].status = "rejected"
    /\ mutations = << Call("setPixel", 0, 0, 1, <<>>, FALSE) >>
    /\ board = [AllZero EXCEPT ![1] = 1]

\* one mutation applied to grid b
ApplyMutation(b, m) ==
    IF m.op = "setPixel"
    THEN IF ValidCell(m.x, m.y)
         THEN [b EXCEPT ![m.y * BOARD_WIDTH + m.x + 1] = m.colorIndex]
         ELSE b
    ELSE IF m.op = "clearBoard"
         THEN AllZero
         ELSE IF Len(m.data) = BOARD_WIDTH * BOARD_HEIGHT THEN m.data ELSE b

\* the first n mutations applied one after another to the empty grid
RECURSIVE Replay(_, _)
Replay(ms, n) == IF n = 0 THEN AllZero ELSE ApplyMutation(Replay(ms, n - 1), ms[n])

\* C16: the board is what the mutations executed so far give when applied
\* one after another in the order they executed; an upload contributes one
\* bulk replace when its decode ends well and none before or otherwise, and
\* right after it the board is the uploaded data, whatever was edited
\* while the upload was decoding.
C16_LastWriteWins ==
    /\ board = Replay(mutations, Len(mutations))
    /\ \A u \in DOMAIN uploads :
          Cardinality(SetBoardCalls(u)) = IF uploads[u].status = "resolved" THEN 1 ELSE 0
    /\ lastCall.op = "imgOnload" => board = uploads[lastCall.x].data

\* a peg was placed while an upload was decoding, and the upload replaced it
C16_Witness ==
    /\ trace = <<"handleImageUpload", "handleCanvasClick", "imgOnload">>
    /\ Len(mutations) = 2
    /\ mutations[1] = Call("setPixel", 0, 0, 1, <<>>, FALSE)
    /\ mutations[2].op = "setBoard"
    /\ board = uploads[1].data
    /\ board[1] = 2

(***************************************************************************)
(* Properties of frames.                                                   *)
(***************************************************************************)
\* the steps that edit the live grid
GridEdits == {"handleCanvasClick", "handleClear"}

FindsNoBackend ==
    \/ lastCall'.op = "initWebGPU" /\ ~navigatorGpu
    \/ lastCall'.op = "requestAdapterNull"

\* C18: whenever isSupported is false, error is a message and isReady is
\* false; isSupported turns false in the step of initWebGPU that finds
\* navigator.gpu absent and in the step in which requestAdapter resolves
\* with no adapter, and in no other step.
C18_UnsupportedHasReason ==
    [][ /\ ~isSupported' => (error' # "null" /\ ~isReady')
        /\ (isSupported /\ ~isSupported') <=> FindsNoBackend
      ]_vars

\* requestAdapter resolved with null: isSupported is false and the message
\* says that no adapter was obtained
C18_Witness ==
    /\ navigatorGpu
    /\ lastCall.op = "requestAdapterNull"
    /\ ~isSupported
    /\ error = NoAdapterMessage
    /\ ~isReady

\* C20: once the view is torn down and initWebGPU has finished, every
\* device requestDevice handed out has been destroyed, whether it was
\* handed out before the teardown or after it.
C20_TeardownDestroysEveryDevice ==
    (~mounted /\ initPc = "done") => \A d \in DOMAIN devices : devices[d].destroyed

(***************************************************************************)
(* Properties of the choice of the backend.                                *)
(***************************************************************************)
\* the GPU backend could not be acquired: navigator.gpu is absent, no
\* adapter was obtained, the device request or the set-up was rejected, or
\* the canvas gave no context
BackendUnavailable ==
    \/ ~navigatorGpu
    \/ useWebGPU = "false"
    \/ error \in {NotSupportedMessage, NoAdapterMessage, InitializationFailedMessage,
                  NoContextMessage}

\* the fallback has drawn the board
CanvasRendering == useWebGPU = "false" /\ painted # <<>>

\* C19: whenever the GPU backend cannot be acquired while the view is
\* mounted, the fallback eventually draws the board (unless the view is
\* torn down first).
C19_UnavailableBackendFallsBack ==
    (mounted /\ BackendUnavailable) ~> (CanvasRendering \/ ~mounted)

(***************************************************************************)
(* Properties of the render loop.                                          *)
(***************************************************************************)
\* the steps in which render runs, and the effect whose render it is
RenderSteps == {"startRenderEffect", "animationFrame", "changeDependency"}

\* C21: once a run of the render effect has been cleaned up, by the
\* teardown or by a changed dependency, none of its requests is pending any
\* more and render never runs for it again.
C21_CleanedUpLoopIsSilent ==
    [][ /\ \A s \in scheduled' : s.effect \notin cleanedUp'
        /\ lastCall'.op \in RenderSteps => lastCall'.x \notin cleanedUp
      ]_vars

\* two frames of the first run of the effect, then a changed dependency:
\* the only pending request belongs to the second run
C21_Witness ==
    /\ trace = <<"startRenderEffect", "animationFrame", "changeDependency">>
    /\ cleanedUp = {1}
    /\ renderEffect = 2
    /\ scheduled = {[id |-> 3, effect |-> 2]}

\* C22: while a run of the render effect is live, every run of its render
\* leaves a request for the next frame pending and stored in
\* animationFrameRef, also when the frame could not be drawn.
C22_EveryFrameRearms ==
    [][ (lastCall'.op \in RenderSteps /\ lastCall'.x = renderEffect') =>
            /\ [id |-> animationFrameRef', effect |-> renderEffect'] \in scheduled'
            /\ animationFrameRef' = animationFrameRef + 1
      ]_vars

\* a fallback frame found no canvas to draw on: nothing is painted and the
\* next frame is requested
C22_Witness ==
    /\ useWebGPU = "false"
    /\ trace = <<"startRenderEffect", "animationFrame">>
    /\ painted = <<>>
    /\ scheduled = {[id |-> 2, effect |-> 1]}

\* C28: the initialisation of a mounted hook ends in a state the view can
\* tell apart: isReady is true or error is a message (unless the view is
\* torn down first).
C28_InitEndsDistinguishable ==
    (mounted /\ initPc = "start") ~> (isReady \/ error # "null" \/ ~mounted)

\* a device was obtained but the canvas gave no context: the initialisation
\* is over, isReady is false and error says why
C28_Witness ==
    /\ mounted
    /\ initPc = "done"
    /\ lastCall.op = "requestDeviceResolved"
    /\ ~isReady
    /\ error = NoContextMessage

\* C29: no frame is synthesized before isReady is true, and whenever isReady
\* is true the device and every ref a frame needs are set, so that a render
\* of the GPU hook never finds one of them missing.
C29_ReadyMeansFullyInitialised ==
    /\ isReady => gpuHandlesReady
    /\ (useWebGPU = "true" /\ ~isReady) =>
            (renderEffect = 0 /\ scheduled = {} /\ queue = <<>> /\ presented = <<>>)
    /\ (useWebGPU = "true" /\ lastCall.op \in RenderSteps) => (isReady /\ gpuHandlesReady)

\* the initialisation went through and the render effect submitted its
\* first frame
C29_Witness ==
    /\ useWebGPU = "true"
    /\ lastCall.op = "startRenderEffect"
    /\ isReady
    /\ handles = AssignedAfter(Len(HandleOrder))
    /\ Len(queue) = 1

(***************************************************************************)
(* Properties of the compute shader.                                       *)
(***************************************************************************)
\* the pixel the invocation ran for, as a position on the canvas
PixelPosition == [px |-> globalId.x, py |-> globalId.y]

\* the cells whose physical centre is farther from the pixel than
\* ambientRadius + spacing
FarCells ==
    {cell \in (0..(BOARD_WIDTH - 1)) \X (0..(BOARD_HEIGHT - 1)) :
        SquaredDistance(PixelPosition, PegCentre(cell[1], cell[2]))
            > (ambientRadius + pegSpacing) * (ambientRadius + pegSpacing)}

\* C25: whatever colour index is stored in a cell whose physical centre is
\* farther than ambientRadius + spacing from the pixel, with the rest of
\* the grid unchanged, the invocation writes the same pixel.
C25_FarCellsDoNotChangeThePixel ==
    outputPixel # NoPixel =>
        \A cell \in FarCells, k \in 0..MaxColorId :
            mainWrites(globalId.x, globalId.y,
                       ArrayStore(board, cellIndex(cell[1], cell[2]), k)) = outputPixel

\* the first pixel of a grid with every cell lit: near pegs light it, and
\* a lit cell lies beyond ambientRadius + spacing
C25_Witness ==
    /\ lastCall.op = "main"
    /\ globalId = [x |-> 0, y |-> 0]
    /\ outputPixel # NoPixel
    /\ outputPixel.light # <<>>
    /\ \E cell \in FarCells : board[cellIndex(cell[1], cell[2]) + 1] > 0

\* C26: a pixel whose logical cell (currentPegX, currentPegY) lies outside
\* the board gets no light from any peg: it shows the background alone.
C26_OutsideCellIsBackgroundOnly ==
    (/\ outputPixel # NoPixel
     /\ ~ValidCell(currentPegX(globalId.x, globalId.y), currentRow(globalId.y)))
        => outputPixel.light = <<>>

\* C30: every occupied peg of the board whose physical centre lies within
\* ambientRadius of the pixel adds a term to the light of the pixel.
C30_EveryPegInReachIsExamined ==
    outputPixel # NoPixel =>
        \A c \in 0..(BOARD_WIDTH - 1), r \in 0..(BOARD_HEIGHT - 1) :
            (/\ board[cellIndex(c, r) + 1] > 0
             /\ SquaredDistance(PixelPosition, PegCentre(c, r))
                    <= ambientRadius * ambientRadius)
                => \E n \in 1..Len(outputPixel.light) :
                        outputPixel.light[n].pegIndex = cellIndex(c, r)

\* C23: the Canvas fallback draws the peg of the cell the resolver returned
\* at the physical centre the resolver measured the pointer against, which
\* is also the centre the shader lights the peg from.
C23_BackendsAndResolverAgreeOnCentres ==
    (pc = "resolved" /\ closestPeg # NoPeg) =>
        /\ canvasPegCenter(closestPeg.x, closestPeg.y).px = centerX(closestPeg.x, closestPeg.y)
        /\ canvasPegCenter(closestPeg.x, closestPeg.y).py = centerY(closestPeg.y)
        /\ neighborCenterX(closestPeg.x, closestPeg.y) = centerX(closestPeg.x, closestPeg.y)
        /\ neighborCenterY(closestPeg.y) = centerY(closestPeg.y)

\* C27: the word written for a pixel holds, in the order of the bytes of
\* the output buffer, red, green, blue and alpha, each channel clamped to
\* [0, 1], scaled by 255 and truncated, and the alpha byte is 255.
C27_PixelsArePackedRedGreenBlueAlpha ==
    lastCall.op = "writeOutput" =>
        outputPixel.word =
            <<channelByte(clamp(outputPixel.finalColor)[1]),
              channelByte(clamp(outputPixel.finalColor)[2]),
              channelByte(clamp(outputPixel.finalColor)[3]),
              255>>

(***************************************************************************)
(* Properties of the colours of the two backends.                          *)
(***************************************************************************)
\* a colour of the shader, channels in tenths, and a '#rrggbb' colour are
\* the same colour: each channel of the second is the byte nearest to the
\* channel of the first
SameColour(vec, hex) ==
    /\ 10 * hexToRgb(hex).r - 255 * vec[1] \in -5..5
    /\ 10 * hexToRgb(hex).g - 255 * vec[2] \in -5..5
    /\ 10 * hexToRgb(hex).b - 255 * vec[3] \in -5..5

\* C24: when a GPU frame is shown, a peg whose colour index is an id of the
\* Palette has the colour the Canvas fallback draws for that index, which is
\* the hex of the Palette entry; index 0 and an index outside the Palette
\* show as empty in both backends.
C24_BackendsShowThePaletteColour ==
    [][ lastCall'.op = "gpuPresent" =>
            \A i \in 1..Len(presented') :
                LET k == Head(queue).atStart[i]
                    drawn == drawPegs(Head(queue).atStart)[i]
                IN  IF k \in PaletteIds \ {0}
                    THEN SameColour(presented'[i], drawn)
                    ELSE presented'[i] = getColor(0) /\ drawn = HoleFill
      ]_vars

====
